---------------------------- MODULE Spec2Model ----------------------------
(***************************************************************************)
(* State-machine model of the learning core of Spracherwerb:               *)
(*   LearningMemory        (src/Spracherwerb/learning_memory.py)           *)
(*   LearningSpotProfile   (src/Spracherwerb/learning_spot_profile.py)     *)
(*   LearningProgression   (src/Spracherwerb/learning_progression.py)      *)
(*   SessionContext        (src/Spracherwerb/session_context.py)           *)
(*   SessionManager        (src/Spracherwerb/session_manager.py)           *)
(*                                                                         *)
(* Python's None is None for an object, NoTime for an Optional[float] and  *)
(* NoneStr for an Optional[str].  time.time() is the variable now,         *)
(* advanced by Tick.  A call that raises records the exception's class in  *)
(* call.exc and keeps every assignment the code made before the raise.     *)
(* Each component has its own specification (SpecMemory, SpecSnapshots,    *)
(* SpecProfile, SpecProgression, SpecContext, SpecManager) over the same   *)
(* variables.                                                              *)
(***************************************************************************)
EXTENDS Integers, Sequences, FiniteSets, TLC

VARIABLES
    now,                    \* the wall clock read by time.time()
    call,                   \* the last call made: its name, arguments, result
    all_learning_spots,     \* LearningMemory.all_learning_spots
    current_session_spots,  \* LearningMemory.current_session_spots
    historical_snapshots,   \* LearningMemory._historical_snapshots
    inserted,               \* history: timestamps passed to update_all_learning_spots
    spot_owner,             \* history: the activity_type each live spot was inserted with
    snapAdded,              \* history: timestamps passed to _add_historical_snapshot
    sessionInserted,        \* history: number of update_current_session_spots calls
    interaction_history,    \* LearningSpotProfile._interaction_history (class level)
    profile,                \* the LearningSpotProfile instance under test, or None
    activities,             \* the LearningActivity objects, by identity 1, 2, ...
    upcoming_activities,    \* LearningProgression.upcoming_activities (identities)
    current_activity,       \* LearningProgression.current_activity (an identity)
    completed_activities,   \* LearningProgression.completed_activities (identities)
    activity_history,       \* LearningProgression.activity_history (identities)
    activity_progress,      \* LearningMemory.activity_progress
    vocabulary_learned,     \* LearningMemory.vocabulary_learned
    grammar_points_covered, \* LearningMemory.grammar_points_covered
    session_history,        \* LearningMemory.session_history
    last_session_spots,     \* LearningMemory.last_session_spots
    file,                   \* the file 'learning_memory' on disk
    saved,                  \* history: the persisted fields at the last completed save
    ctx,                    \* the SessionContext under test
    engine,                 \* the LearningEngine whose state is ctx
    sessions,               \* SessionManager.sessions
    active_session_id       \* SessionManager.active_session_id

storeVars == <<vocabulary_learned, grammar_points_covered, session_history,
               last_session_spots, file, saved>>
memVars  == <<all_learning_spots, current_session_spots, historical_snapshots,
              inserted, spot_owner, snapAdded, sessionInserted, storeVars>>
profVars == <<interaction_history, profile>>
progVars == <<activities, upcoming_activities, current_activity,
              completed_activities, activity_history, activity_progress>>
mgrVars  == <<sessions, active_session_id>>
vars     == <<now, call, memVars, profVars, progVars, ctx, engine, mgrVars>>

\* Python's None where an object, a number or a string is optional
None == [none |-> TRUE]
NoTime == -1
NoActivity == 0
NoneStr == "None"

(***************************************************************************)
(* Bounds of the model.                                                    *)
(***************************************************************************)
\* the clock runs from 0 to MaxNow
MaxNow == 6
\* value of max_memory_size the model is checked at (1000 in the source)
MemCap == 3
\* value of max_historical_snapshots the model is checked at (5000 in the source)
SnapCap == 2
\* number of update_all_learning_spots calls explored
MaxInserts == 6
\* timestamps of the spots handed to LearningMemory range over 1..MaxStamp
MaxStamp == 3
\* number of direct _add_historical_snapshot calls explored
MaxSnapAdds == 4

\* the ActivityType values the model draws from (2 of the 11)
ActivityTypes == {"vocabulary_builder", "conversation_practice"}

(***************************************************************************)
(* LearningSpot and LearningSpotSnapshot                                   *)
(***************************************************************************)
\* dataclass LearningSpot; id stands for the identity of the Python object
LearningSpot(id, content, timestamp, was_spoken, requires_response) ==
    [id |-> id, content |-> content, timestamp |-> timestamp,
     was_spoken |-> was_spoken, interaction_type |-> "text",
     requires_response |-> requires_response, media_generated |-> FALSE]

from_learning_spot(spot, activity_type) ==
    [creation_time |-> spot.timestamp, content |-> spot.content,
     was_spoken |-> spot.was_spoken, interaction_type |-> spot.interaction_type,
     requires_response |-> spot.requires_response,
     media_generated |-> spot.media_generated, activity_type |-> activity_type]

(***************************************************************************)
(* LearningMemory                                                          *)
(***************************************************************************)
max_memory_size == MemCap
max_historical_snapshots == SnapCap

Min(a, b) == IF a <= b THEN a ELSE b
Max(a, b) == IF a >= b THEN a ELSE b

\* Python's sorted() on a set of numbers: the ascending sequence
RECURSIVE Sorted(_)
Sorted(S) ==
    IF S = {} THEN <<>>
    ELSE LET m == CHOOSE x \in S : \A y \in S : x <= y
         IN  <<m>> \o Sorted(S \ {m})

\* Python's seq[:-n] for n > 0: everything but the last n elements
AllButLast(seq, n) == SubSeq(seq, 1, Len(seq) - n)

\* Python's seq[:n] and seq[n:] for n >= 0
Prefix(seq, n) == SubSeq(seq, 1, Min(n, Len(seq)))
Suffix(seq, n) == SubSeq(seq, n + 1, Len(seq))

Range(seq) == {seq[i] : i \in 1..Len(seq)}

\* the keys _add_historical_snapshot deletes once the map exceeds its cap
MutOldestTimesKeepsAll(snaps) == {}
MutOldestTimesNewest(snaps) ==
    Range(Suffix(Sorted(DOMAIN snaps), max_historical_snapshots))
OldestTimes(snaps) ==
    Range(AllButLast(Sorted(DOMAIN snaps), max_historical_snapshots))

\* LearningMemory._add_historical_snapshot: the map after the call
AddHistoricalSnapshot(snaps, spot, activity_type) ==
    LET snapshot == from_learning_spot(spot, activity_type)
        put == [k \in (DOMAIN snaps) \cup {spot.timestamp} |->
                   IF k = spot.timestamp THEN snapshot ELSE snaps[k]]
    IN  IF Cardinality(DOMAIN put) > max_historical_snapshots
        THEN [k \in (DOMAIN put) \ OldestTimes(put) |-> put[k]]
        ELSE put

\* the loop of update_all_learning_spots over the spots beyond the cap
RECURSIVE SnapshotAll(_, _, _)
SnapshotAll(snaps, excess, activity_type) ==
    IF excess = <<>> THEN snaps
    ELSE SnapshotAll(AddHistoricalSnapshot(snaps, Head(excess), activity_type),
                     Tail(excess), activity_type)

\* the live list update_all_learning_spots leaves behind
MutTruncatedKeepsOneMore(spots) == Prefix(spots, max_memory_size + 1)
Truncated(spots) == Prefix(spots, max_memory_size)

\* LearningMemory.update_all_learning_spots: the store after the call.
\* A spot of None raises AttributeError in the first log line, before the insert.
UpdateAllLearningSpotsResult(spots, snaps, spot, activity_type) ==
    IF spot = None
    THEN [spots |-> spots, snaps |-> snaps, exc |-> "AttributeError"]
    ELSE LET grown == <<spot>> \o spots
         IN  IF Len(grown) > max_memory_size
             THEN [spots |-> Truncated(grown),
                   snaps |-> SnapshotAll(snaps, Suffix(grown, max_memory_size),
                                         activity_type),
                   exc |-> "none"]
             ELSE [spots |-> grown, snaps |-> snaps, exc |-> "none"]

(***************************************************************************)
(* Initial state: every class-level collection as the class body leaves    *)
(* it, no profile, an empty progression, a SessionContext constructed at   *)
(* time 0 as LearningSession.__init__ constructs it, an empty manager.     *)
(***************************************************************************)
\* what LearningEngine.__init__ assigns to the engine's own fields
NewLearningEngine == [current_activity |-> NoneStr, activity_results |-> <<>>]

\* SessionContext as LearningSession.__init__ constructs it at time t
NewSessionContext(t) ==
    [start_time |-> t, activities_completed |-> <<>>,
     vocabulary_learned |-> <<>>, grammar_points_covered |-> <<>>,
     time_spent |-> 0,
     current_activity |-> NoneStr, pause_time |-> NoTime, end_time |-> NoTime,
     total_time |-> NoTime, last_user_action |-> "NONE", last_action_time |-> t,
     is_paused |-> FALSE, is_cancelled |-> FALSE, skip_current_activity |-> FALSE]

Init ==
    /\ now = 0
    /\ call = [op |-> "init", exc |-> "none"]
    /\ all_learning_spots = <<>>
    /\ current_session_spots = <<>>
    /\ historical_snapshots = <<>>
    /\ inserted = <<>>
    /\ spot_owner = <<>>
    /\ snapAdded = <<>>
    /\ sessionInserted = 0
    /\ interaction_history = <<>>
    /\ profile = None
    /\ activities = <<>>
    /\ upcoming_activities = <<>>
    /\ current_activity = NoActivity
    /\ completed_activities = <<>>
    /\ activity_history = <<>>
    /\ activity_progress = <<>>
    /\ vocabulary_learned = <<>>
    /\ grammar_points_covered = <<>>
    /\ session_history = <<>>
    /\ last_session_spots = <<>>
    /\ file = [kind |-> "missing"]
    /\ saved = None
    /\ ctx = NewSessionContext(0)
    /\ engine = NewLearningEngine
    /\ sessions = <<>>
    /\ active_session_id = NoTime

\* time passes between calls
Tick ==
    /\ now < MaxNow
    /\ now' = now + 1
    /\ UNCHANGED <<call, memVars, profVars, progVars, ctx, engine, mgrVars>>

(***************************************************************************)
(* LearningMemory: the operations as actions                               *)
(***************************************************************************)
\* the activity_type every spot of the list spots was inserted with, after an
\* insert of spot with activity_type
Owners(owner, spots, spot, activity_type) ==
    [id \in {s.id : s \in Range(spots)} |->
        IF id = spot.id THEN activity_type ELSE owner[id]]

\* LearningMemory.update_all_learning_spots(spot, activity_type) with a spot
\* object the caller constructed
UpdateAllLearningSpots(timestamp, was_spoken, activity_type) ==
    /\ Len(inserted) < MaxInserts
    /\ LET spot == LearningSpot(<<"m", Len(inserted) + 1>>, "c", timestamp,
                                was_spoken, FALSE)
           r == UpdateAllLearningSpotsResult(all_learning_spots,
                                             historical_snapshots, spot,
                                             activity_type)
       IN  /\ all_learning_spots' = r.spots
           /\ historical_snapshots' = r.snaps
           /\ spot_owner' = Owners(spot_owner, r.spots, spot, activity_type)
           /\ call' = [op |-> "update_all_learning_spots", exc |-> r.exc]
    /\ inserted' = Append(inserted, timestamp)
    /\ UNCHANGED <<now, current_session_spots, snapAdded, sessionInserted,
                   storeVars, profVars, progVars, ctx, engine, mgrVars>>

\* LearningMemory._add_historical_snapshot(spot, activity_type), called directly
AddSnapshot(timestamp, was_spoken, activity_type) ==
    /\ Len(snapAdded) < MaxSnapAdds
    /\ LET spot == LearningSpot(<<"m", Len(snapAdded) + 1>>, "c", timestamp,
                                was_spoken, FALSE)
       IN  historical_snapshots' =
               AddHistoricalSnapshot(historical_snapshots, spot, activity_type)
    /\ snapAdded' = Append(snapAdded, timestamp)
    /\ call' = [op |-> "_add_historical_snapshot", exc |-> "none"]
    /\ UNCHANGED <<now, all_learning_spots, current_session_spots, inserted, spot_owner,
                   sessionInserted, storeVars, profVars, progVars, ctx, engine, mgrVars>>

NextMemory ==
    \E t \in 1..MaxStamp, w \in BOOLEAN, a \in ActivityTypes :
        UpdateAllLearningSpots(t, w, a)

SpecMemory == Init /\ [][NextMemory]_vars

NextSnapshots ==
    \E t \in 1..MaxStamp, w \in BOOLEAN, a \in ActivityTypes :
        AddSnapshot(t, w, a)

SpecSnapshots == Init /\ [][NextSnapshots]_vars

(***************************************************************************)
(* Claims about LearningMemory                                             *)
(***************************************************************************)
\* C1: after every update_all_learning_spots call the live list holds at most
\* max_memory_size spots and the snapshot map at most max_historical_snapshots
\* entries.
C1_BoundedStore ==
    /\ Len(all_learning_spots) <= max_memory_size
    /\ Cardinality(DOMAIN historical_snapshots) <= max_historical_snapshots

\* both caps have been exceeded and enforced: more spots were evicted than the
\* snapshot map may hold, under distinct timestamps
C1_Witness ==
    /\ call.op = "update_all_learning_spots"
    /\ Len(all_learning_spots) = max_memory_size
    /\ Cardinality(DOMAIN historical_snapshots) = max_historical_snapshots
    /\ Len(inserted) > max_memory_size + max_historical_snapshots
    /\ Cardinality(Range(Prefix(inserted, Len(inserted) - max_memory_size)))
           > max_historical_snapshots

\* the spots evicted so far: the list is most-recent-first, so they are the
\* first N - max_memory_size ones inserted
EvictedTimes ==
    IF Len(inserted) > max_memory_size
    THEN Range(Prefix(inserted, Len(inserted) - max_memory_size))
    ELSE {}

\* C2 as stated: after N > max_memory_size inserts into an empty store the list
\* holds max_memory_size spots and the snapshot map
\* min(N - max_memory_size, max_historical_snapshots) entries.
C2_Original ==
    Len(inserted) > max_memory_size =>
        /\ Len(all_learning_spots) = max_memory_size
        /\ Cardinality(DOMAIN historical_snapshots) =
               Min(Len(inserted) - max_memory_size, max_historical_snapshots)

\* C2 amended: the snapshot map is keyed by timestamp, so it holds
\* min(D, max_historical_snapshots) entries, D the number of distinct
\* timestamps among the N - max_memory_size evicted spots.
C2_SnapshotCount ==
    Len(inserted) > max_memory_size =>
        /\ Len(all_learning_spots) = max_memory_size
        /\ Cardinality(DOMAIN historical_snapshots) =
               Min(Cardinality(EvictedTimes), max_historical_snapshots)

\* evictions with a repeated timestamp, and evictions past the snapshot cap
C2_Witness ==
    /\ Len(inserted) > max_memory_size + max_historical_snapshots
    /\ Cardinality(EvictedTimes) < Len(inserted) - max_memory_size
    /\ Cardinality(EvictedTimes) >= max_historical_snapshots

StrictlyIncreasing(seq) == \A i \in 1..(Len(seq) - 1) : seq[i] < seq[i + 1]

\* C3: when snapshots are added with strictly increasing creation times, the
\* retained keys are exactly those of the last max_historical_snapshots added.
C3_NewestRetained ==
    StrictlyIncreasing(snapAdded) =>
        DOMAIN historical_snapshots =
            Range(Suffix(snapAdded,
                         Max(0, Len(snapAdded) - max_historical_snapshots)))

\* more snapshots than the cap were added, in strictly increasing order
C3_Witness ==
    /\ StrictlyIncreasing(snapAdded)
    /\ Len(snapAdded) > max_historical_snapshots
    /\ Cardinality(DOMAIN historical_snapshots) = max_historical_snapshots

(***************************************************************************)
(* LearningSpotProfile                                                     *)
(***************************************************************************)
\* value of _max_history the model is checked at (100 in the source)
HistCap == 2
\* the class-level history list is explored up to this many spots beyond the cap
MaxHistExtra == 1
\* number of update_current_session_spots calls explored
MaxSessionSpots == 4
\* the throttle specification inserts session spots up to this clock value
MaxSpotTime == 0
\* number of session spots the throttle specification inserts
MaxThrottleSpots == 2
\* the lookups are called with idx in 0..MaxIdx
MaxIdx == 3

max_history == HistCap
min_seconds_between_spots == 5
max_iterations == 100

\* Python truthiness of an Optional[str]
Truthy(content) == content # NoneStr /\ content # ""

\* Python's seq[-n:] for n > 0: the last n elements
Last(seq, n) == SubSeq(seq, Max(1, Len(seq) - n + 1), Len(seq))

\* the list self._interaction_history names: the instance attribute the
\* constructor's truncation created, else the class attribute
VisibleHistory(p, hist) == IF p.has_own_history THEN p.own_history ELSE hist

\* is_first_interaction as the constructor computes it, after its history update
IsFirstInteraction(previous_spot, visible) ==
    previous_spot = None /\ visible = <<>>

\* self.provide_feedback; drawF is random.random() < chance_feedback_after_response
ProvideFeedback(previous_spot, drawF) ==
    /\ previous_spot # None
    /\ previous_spot.requires_response
    /\ drawF

\* self.provide_explanation; drawE is
\* random.random() < chance_explanation_before_question
ProvideExplanation(current_content, drawE) ==
    current_content # NoneStr /\ drawE

\* self.generate_media; drawM is the outcome of _should_generate_media()
MutGenerateMediaIgnoresSetting(current_content, enable_visual_learning, drawM) ==
    current_content # NoneStr /\ drawM
GenerateMedia(current_content, enable_visual_learning, drawM) ==
    /\ current_content # NoneStr
    /\ enable_visual_learning
    /\ drawM

\* LearningSpotProfile.__init__ at time t; drawF, drawE, drawM are the outcomes
\* of the three random.random() < chance comparisons and enable_visual_learning
\* is the configuration's setting.  Returns the profile and the class-level
\* history list.
NewProfile(hist, activity_type, previous_spot, current_content, callback, content_callback, t, enable_visual_learning, drawF, drawE, drawM) ==
    LET appended == /\ Truthy(current_content)
                    /\ \/ hist = <<>>
                       \/ hist[Len(hist)].content # current_content
        hist1 == IF appended
                 THEN Append(hist, LearningSpot(<<"h", Len(hist) + 1>>,
                                                current_content, t, FALSE, FALSE))
                 ELSE hist
        own == appended /\ Len(hist1) > max_history
        ownList == IF own THEN Last(hist1, max_history) ELSE <<>>
        visible == IF own THEN ownList ELSE hist1
        first == IsFirstInteraction(previous_spot, visible)
    IN  [hist |-> hist1,
         profile |->
           [activity_type |-> activity_type,
            previous_spot |-> previous_spot,
            current_content |-> current_content,
            creation_time |-> t,
            preparation_time |-> NoTime,
            get_previous_spot_callback |-> callback,
            get_next_content_callback |-> content_callback,
            has_own_history |-> own,
            own_history |-> ownList,
            is_first_interaction |-> first,
            provide_introduction |-> first,
            provide_feedback |-> ProvideFeedback(previous_spot, drawF),
            provide_explanation |-> ProvideExplanation(current_content, drawE),
            generate_media |-> GenerateMedia(current_content,
                                             enable_visual_learning, drawM),
            is_prepared |-> FALSE,
            has_already_spoken |-> FALSE]]

\* LearningMemory.update_current_session_spots: the list after the call
UpdateCurrentSessionSpotsResult(spots, spot) ==
    LET grown == <<spot>> \o spots
    IN  IF Len(grown) > max_memory_size THEN Prefix(grown, max_memory_size)
        ELSE grown

\* the while loop of get_previous_session_spot: the first 0-based index from
\* base_idx on whose spot is older than creation_time, else len(spots)
RECURSIVE ScanBase(_, _, _)
ScanBase(spots, base_idx, creation_time) ==
    IF base_idx >= Len(spots) THEN base_idx
    ELSE IF spots[base_idx + 1].timestamp < creation_time THEN base_idx
    ELSE ScanBase(spots, base_idx + 1, creation_time)

\* target_idx of get_previous_session_spot
MutTargetIdxIsBase(base_idx, idx) == base_idx
TargetIdx(base_idx, idx) == base_idx + idx

\* LearningMemory.get_previous_session_spot(idx, creation_time), indices 0-based
GetPreviousSessionSpot(spots, idx, creation_time) ==
    IF Len(spots) <= idx THEN None
    ELSE IF creation_time = NoTime THEN spots[idx + 1]
    ELSE LET base_idx == ScanBase(spots, idx, creation_time)
             target_idx == TargetIdx(base_idx, idx)
         IN  IF base_idx >= Len(spots) THEN None
             ELSE IF target_idx >= Len(spots) THEN None
             ELSE spots[target_idx + 1]

\* a lookup capability that always returns the same never-spoken spot
StubSpot == LearningSpot(<<"stub", 0>>, "stub", 0, FALSE, FALSE)

\* LearningSpotProfile.get_previous_spot(idx) with a callback set: "memory" is
\* LearningMemory.get_previous_session_spot, "stub" the constant capability
GetPreviousSpot(p, spots, idx) ==
    IF p.get_previous_spot_callback = "memory"
    THEN GetPreviousSessionSpot(spots, idx, p.creation_time)
    ELSE StubSpot

\* the failsafe test of get_last_spoken_spot, made after idx += 1
MutFailsafeOffByOne(idx) == idx > max_iterations
Failsafe(idx) == idx >= max_iterations

\* whether the loop of get_last_spoken_spot returns in its iteration idx:
\* the capability returned None or a spoken spot, or the failsafe triggered
LoopEnds(p, spots, idx) ==
    LET spot == GetPreviousSpot(p, spots, idx)
    IN  IF spot = None THEN TRUE
        ELSE spot.was_spoken \/ Failsafe(idx + 1)

\* the while loop of get_last_spoken_spot: it returns in the first iteration
\* that ends it; the spot returned and the invocations of the capability
ScanSpoken(p, spots) ==
    LET ends == {i \in 0..(max_iterations + 1) : LoopEnds(p, spots, i)}
        idx  == CHOOSE i \in ends : \A j \in ends : i <= j
        spot == GetPreviousSpot(p, spots, idx)
    IN  [spot |-> IF spot = None THEN None
                  ELSE IF spot.was_spoken THEN spot ELSE None,
         calls |-> idx + 1]

\* LearningSpotProfile.get_last_spoken_spot; without a callback the first
\* get_previous_spot raises
GetLastSpokenSpot(p, spots) ==
    IF p.get_previous_spot_callback = "none"
    THEN [spot |-> None, calls |-> 0, exc |-> "Exception"]
    ELSE LET r == ScanSpoken(p, spots)
         IN  [spot |-> r.spot, calls |-> r.calls, exc |-> "none"]

\* the comparison of last_spot_more_than_seconds
MutElapsedAtLeast(current_time, timestamp, seconds) ==
    (current_time - timestamp) >= seconds
Elapsed(current_time, timestamp, seconds) ==
    (current_time - timestamp) > seconds

\* LearningSpotProfile.last_spot_more_than_seconds at time t
LastSpotMoreThanSeconds(p, spots, seconds, t) ==
    LET r == GetLastSpokenSpot(p, spots)
    IN  IF r.exc # "none" THEN [val |-> FALSE, exc |-> r.exc, last |-> None]
        ELSE IF r.spot = None THEN [val |-> TRUE, exc |-> "none", last |-> None]
        ELSE [val |-> Elapsed(t, r.spot.timestamp, seconds), exc |-> "none",
              last |-> r.spot]

\* LearningSpotProfile.is_going_to_say_something at time t: the value returned,
\* the exception raised, and the last spoken spot the throttle looked at
IsGoingToSaySomething(p, spots, t) ==
    IF p.provide_introduction \/ p.provide_feedback \/ p.provide_explanation
    THEN [val |-> TRUE, exc |-> "none", last |-> None]
    ELSE LastSpotMoreThanSeconds(p, spots, min_seconds_between_spots, t)

\* was_spoken as mark_as_spoken assigns it
MutSpokenToggled(spot) == ~spot.was_spoken
SpokenMark(spot) == TRUE

\* 1-based index of the first spot of a list with the given content, 0 if none
RECURSIVE FirstWithContent(_, _, _)
FirstWithContent(list, content, i) ==
    IF i > Len(list) THEN 0
    ELSE IF list[i].content = content THEN i
    ELSE FirstWithContent(list, content, i + 1)

\* a list after the spot object with identity id was marked
MarkIn(list, id) ==
    [i \in 1..Len(list) |->
        IF list[i].id = id THEN [list[i] EXCEPT !.was_spoken = SpokenMark(list[i])]
        ELSE list[i]]

(***************************************************************************)
(* LearningSpotProfile and the session list: the operations as actions     *)
(***************************************************************************)
\* LearningSpotProfile(activity_type, previous_spot, current_content,
\* get_previous_spot_callback, get_next_content_callback) constructed now
Construct(activity_type, previous_spot, current_content, callback, content_callback, enable_visual_learning, drawF, drawE, drawM) ==
    LET r == NewProfile(interaction_history, activity_type, previous_spot,
                        current_content, callback, content_callback, now,
                        enable_visual_learning, drawF, drawE, drawM)
    IN  /\ Len(r.hist) <= HistCap + MaxHistExtra
        /\ interaction_history' = r.hist
        /\ profile' = r.profile
        /\ call' = [op |-> "__init__", exc |-> "none",
                    history_was_empty |-> interaction_history = <<>>,
                    enable_visual_learning |-> enable_visual_learning]
        /\ UNCHANGED <<now, memVars, progVars, ctx, engine, mgrVars>>

\* profile.mark_as_spoken(): the first spot of the visible list with the
\* profile's content is the object marked, wherever it is referenced
MarkAsSpoken ==
    /\ profile # None
    /\ LET visible == VisibleHistory(profile, interaction_history)
           i == IF Truthy(profile.current_content)
                THEN FirstWithContent(visible, profile.current_content, 1)
                ELSE 0
       IN  IF i > 0
           THEN /\ interaction_history' = MarkIn(interaction_history, visible[i].id)
                /\ profile' = [profile EXCEPT
                                 !.has_already_spoken = TRUE,
                                 !.own_history = MarkIn(@, visible[i].id)]
           ELSE /\ interaction_history' = interaction_history
                /\ profile' = [profile EXCEPT !.has_already_spoken = TRUE]
    /\ call' = [op |-> "mark_as_spoken", exc |-> "none"]
    /\ UNCHANGED <<now, memVars, progVars, ctx, engine, mgrVars>>

\* the profile after reset()
MutResetForgetsSpoken(p) ==
    [p EXCEPT !.is_prepared = FALSE, !.preparation_time = NoTime,
              !.has_already_spoken = FALSE]
ResetResult(p) ==
    [p EXCEPT !.is_prepared = FALSE, !.preparation_time = NoTime]

\* profile.reset()
Reset ==
    /\ profile # None
    /\ profile' = ResetResult(profile)
    /\ call' = [op |-> "reset", exc |-> "none",
                had_preparation_time |-> profile.preparation_time # NoTime]
    /\ UNCHANGED <<now, interaction_history, memVars, progVars, ctx, engine, mgrVars>>

\* profile.set_preparation_time()
SetPreparationTime ==
    /\ profile # None
    /\ profile' = [profile EXCEPT !.preparation_time = now]
    /\ call' = [op |-> "set_preparation_time", exc |-> "none"]
    /\ UNCHANGED <<now, interaction_history, memVars, progVars, ctx, engine, mgrVars>>

\* profile.is_going_to_say_something(): the call records what it returned,
\* whether the throttle decided, and the time since the last spoken spot the
\* throttle found (NoTime when it found none)
CallIsGoingToSaySomething ==
    /\ profile # None
    /\ LET r == IsGoingToSaySomething(profile, current_session_spots, now)
       IN  call' = [op |-> "is_going_to_say_something", exc |-> r.exc,
                    val |-> r.val,
                    since |-> IF r.last = None THEN NoTime
                              ELSE now - r.last.timestamp,
                    throttled |-> /\ ~profile.provide_introduction
                                  /\ ~profile.provide_feedback
                                  /\ ~profile.provide_explanation]
    /\ UNCHANGED <<now, memVars, profVars, progVars, ctx, engine, mgrVars>>

\* profile.get_last_spoken_spot(): the call records the spot returned and the
\* number of times the lookup capability was invoked
CallGetLastSpokenSpot ==
    /\ profile # None
    /\ LET r == GetLastSpokenSpot(profile, current_session_spots)
       IN  call' = [op |-> "get_last_spoken_spot", exc |-> r.exc,
                    spot |-> r.spot, calls |-> r.calls,
                    callback |-> profile.get_previous_spot_callback]
    /\ UNCHANGED <<now, memVars, profVars, progVars, ctx, engine, mgrVars>>

\* LearningMemory.update_current_session_spots(spot) with a spot created now
UpdateCurrentSessionSpots(was_spoken, requires_response) ==
    /\ sessionInserted < MaxSessionSpots
    /\ current_session_spots' =
           UpdateCurrentSessionSpotsResult(
               current_session_spots,
               LearningSpot(<<"s", sessionInserted + 1>>, "c", now, was_spoken,
                            requires_response))
    /\ sessionInserted' = sessionInserted + 1
    /\ call' = [op |-> "update_current_session_spots", exc |-> "none"]
    /\ UNCHANGED <<now, all_learning_spots, historical_snapshots, inserted, spot_owner,
                   snapAdded, storeVars, profVars, progVars, ctx, engine, mgrVars>>

\* the previous spots a caller can hand to the constructor: spots of the
\* session list, or a spot held elsewhere
PreviousSpots == {None} \cup Range(current_session_spots)
HeldSpot(requires_response) ==
    LearningSpot(<<"p", 0>>, "q", 0, FALSE, requires_response)

\* config.enable_visual_learning as the configuration's constructor sets it
enable_visual_learning == TRUE

\* Construction and the operations on the profile, for every kind of content
\* and every outcome of the draws.  The clock stands still.
NextProfile ==
    \/ \E prev \in {None, HeldSpot(TRUE), HeldSpot(FALSE)},
          c \in {NoneStr, "", "a", "b"}, visual, dF, dE, dM \in BOOLEAN :
          Construct("vocabulary_builder", prev, c, "memory", "none", visual,
                    dF, dE, dM)
    \/ MarkAsSpoken
    \/ Reset
    \/ SetPreparationTime
    \/ CallIsGoingToSaySomething
    \/ CallGetLastSpokenSpot

SpecProfile == Init /\ [][NextProfile]_vars

\* The throttle specification constructs one profile, on a session list whose
\* spots were created in the first MaxSpotTime + 1 clock values.
NextThrottle ==
    \/ /\ profile = None
       /\ \E prev \in PreviousSpots, c \in {NoneStr, "a"},
             cb \in {"memory", "stub"}, dF, dE \in BOOLEAN :
             Construct("vocabulary_builder", prev, c, cb, "none",
                       enable_visual_learning, dF, dE, FALSE)
    \/ CallIsGoingToSaySomething
    \/ CallGetLastSpokenSpot
    \/ /\ now <= MaxSpotTime
       /\ sessionInserted < MaxThrottleSpots
       /\ \E w \in BOOLEAN : UpdateCurrentSessionSpots(w, TRUE)
    \/ Tick

SpecThrottle == Init /\ [][NextThrottle]_vars

\* LearningSpotProfile.get_previous_spot(idx): raises without a callback
GetPreviousSpotResult(p, spots, idx) ==
    IF p.get_previous_spot_callback = "none"
    THEN [spot |-> None, exc |-> "Exception"]
    ELSE [spot |-> GetPreviousSpot(p, spots, idx), exc |-> "none"]

\* what the get_next_content capability of the explored runs returns
NextContent == "next"

\* LearningSpotProfile.get_next_content(): None without a callback
GetNextContent(p) ==
    IF p.get_next_content_callback = "none"
    THEN [val |-> NoneStr, exc |-> "none"]
    ELSE [val |-> NextContent, exc |-> "none"]

\* profile.get_previous_spot(idx)
CallGetPreviousSpot(idx) ==
    /\ profile # None
    /\ LET r == GetPreviousSpotResult(profile, current_session_spots, idx)
       IN  call' = [op |-> "get_previous_spot", exc |-> r.exc, spot |-> r.spot]
    /\ UNCHANGED <<now, memVars, profVars, progVars, ctx, engine, mgrVars>>

\* profile.get_next_content()
CallGetNextContent ==
    /\ profile # None
    /\ LET r == GetNextContent(profile)
       IN  call' = [op |-> "get_next_content", exc |-> r.exc, val |-> r.val]
    /\ UNCHANGED <<now, memVars, profVars, progVars, ctx, engine, mgrVars>>

\* One profile, constructed with or without each of the two capabilities, and
\* every operation that uses one.
NextCapability ==
    \/ /\ profile = None
       /\ \E prev \in PreviousSpots, c \in {NoneStr, "a"},
             cb \in {"none", "memory", "stub"}, ccb \in {"none", "stub"},
             dF, dE \in BOOLEAN :
             Construct("vocabulary_builder", prev, c, cb, ccb,
                       enable_visual_learning, dF, dE, FALSE)
    \/ \E idx \in 0..MaxIdx : CallGetPreviousSpot(idx)
    \/ CallGetNextContent
    \/ CallGetLastSpokenSpot
    \/ CallIsGoingToSaySomething
    \/ \E w \in BOOLEAN : UpdateCurrentSessionSpots(w, TRUE)

SpecCapability == Init /\ [][NextCapability]_vars

(***************************************************************************)
(* Claims about LearningSpot and LearningSpotProfile                       *)
(***************************************************************************)
\* C5: a profile constructed with previous_spot = None while the history was
\* empty before the construction has provide_introduction = TRUE, whatever its
\* current_content.
C5_FirstInteractionIntroduces ==
    (/\ call.op = "__init__"
     /\ call.history_was_empty
     /\ profile.previous_spot = None)
        => profile.provide_introduction

\* C6: when introduction, feedback and explanation are all off,
\* is_going_to_say_something returns TRUE iff no spoken spot was found or more
\* than min_seconds_between_spots passed since the last spoken spot.
C6_Throttle ==
    (/\ call.op = "is_going_to_say_something"
     /\ call.throttled)
        => /\ call.exc = "none"
           /\ call.val = (\/ call.since = NoTime
                          \/ call.since > min_seconds_between_spots)

\* the throttle let the profile speak 6 seconds after the last spoken spot
C6_Witness ==
    /\ call.op = "is_going_to_say_something"
    /\ call.throttled
    /\ call.since = min_seconds_between_spots + 1
    /\ call.val

\* C7: get_last_spoken_spot never invokes the lookup capability more than
\* max_iterations (100) times, and with a capability that always returns a
\* never-spoken spot it returns None after exactly 100 invocations.
C7_Failsafe ==
    call.op = "get_last_spoken_spot" =>
        /\ call.exc = "none"
        /\ call.calls <= max_iterations
        /\ call.callback = "stub" =>
               (call.spot = None /\ call.calls = max_iterations)

\* the scan ran into the failsafe
C7_Witness ==
    /\ call.op = "get_last_spoken_spot"
    /\ call.callback = "stub"
    /\ call.calls = max_iterations
    /\ call.spot = None

\* C13: without the lookup capability get_previous_spot fails and
\* get_next_content fails, and so do get_last_spoken_spot and an
\* is_going_to_say_something that reaches the throttle.
C13_MissingCapabilityFails ==
    profile # None =>
        /\ (/\ call.op \in {"get_previous_spot", "get_last_spoken_spot"}
            /\ profile.get_previous_spot_callback = "none")
              => call.exc # "none"
        /\ (/\ call.op = "is_going_to_say_something"
            /\ call.throttled
            /\ profile.get_previous_spot_callback = "none")
              => call.exc # "none"
        /\ (/\ call.op = "get_next_content"
            /\ profile.get_next_content_callback = "none")
              => call.exc # "none"

\* C14: the class-level interaction-history buffer never holds more than
\* _max_history entries, whatever profiles were constructed.
C14_HistoryCapped == Len(interaction_history) <= max_history

\* 1-based positions of current_session_spots whose spot is older than the
\* profile and was spoken
SpokenBefore ==
    {i \in 1..Len(current_session_spots) :
        /\ current_session_spots[i].timestamp < profile.creation_time
        /\ current_session_spots[i].was_spoken}

\* C18: wired to LearningMemory.get_previous_session_spot, get_last_spoken_spot
\* returns the most recent spoken spot older than the profile when there is
\* one, and None only when there is none.
C18_FindsLastSpoken ==
    (/\ profile # None
     /\ call.op = "get_last_spoken_spot"
     /\ call.callback = "memory") =>
        IF SpokenBefore = {} THEN call.spot = None
        ELSE call.spot =
                 current_session_spots[CHOOSE i \in SpokenBefore :
                                           \A j \in SpokenBefore : i <= j]

\* the operations on a constructed profile
ProfileOperations ==
    {"reset", "mark_as_spoken", "set_preparation_time",
     "is_going_to_say_something", "get_last_spoken_spot"}

\* C19: no operation on a constructed profile changes its four decision
\* flags, and reset() sets is_prepared to false and preparation_time to None
\* and changes nothing else of the profile nor the history buffer.
C19_FlagsFrozen ==
    [][(profile # None /\ call'.op \in ProfileOperations) =>
          /\ profile'.provide_introduction = profile.provide_introduction
          /\ profile'.provide_feedback = profile.provide_feedback
          /\ profile'.provide_explanation = profile.provide_explanation
          /\ profile'.generate_media = profile.generate_media
          /\ call'.op = "reset" =>
                /\ ~profile'.is_prepared
                /\ profile'.preparation_time = NoTime
                /\ \A f \in (DOMAIN profile) \ {"is_prepared", "preparation_time"} :
                      profile'[f] = profile[f]
                /\ UNCHANGED interaction_history]_vars

\* reset() cleared a preparation time on a profile that had spoken and has
\* decision flags set
C19_Witness ==
    /\ profile # None
    /\ call.op = "reset"
    /\ call.had_preparation_time
    /\ profile.preparation_time = NoTime
    /\ profile.has_already_spoken
    /\ profile.provide_explanation
    /\ profile.generate_media

\* C20: whatever the draws at construction were, provide_feedback is set
\* only with a previous spot that requires a response, provide_explanation
\* only with content that is not None, and generate_media only with content
\* that is not None and the visual-learning setting enabled.
C20_FlagPreconditions ==
    (profile # None /\ call.op = "__init__") =>
        /\ profile.provide_feedback =>
              /\ profile.previous_spot # None
              /\ profile.previous_spot.requires_response
        /\ profile.provide_explanation => profile.current_content # NoneStr
        /\ profile.generate_media =>
              /\ profile.current_content # NoneStr
              /\ call.enable_visual_learning

\* a construction that set all three flags
C20_Witness ==
    /\ profile # None
    /\ call.op = "__init__"
    /\ profile.provide_feedback
    /\ profile.provide_explanation
    /\ profile.generate_media

\* the spots a step removes from all_learning_spots
Evicted ==
    {e \in Range(all_learning_spots) :
        \A s \in Range(all_learning_spots') : s.id # e.id}

\* C27: the snapshot made of a spot evicted from all_learning_spots has the
\* activity_type that spot was inserted with, and its other fields are the
\* evicted spot's.
C27_SnapshotOwnerType ==
    [][\A e \in Evicted :
          e.timestamp \in DOMAIN historical_snapshots' =>
             LET snapshot == historical_snapshots'[e.timestamp]
             IN  /\ snapshot.activity_type = spot_owner[e.id]
                 /\ snapshot.creation_time = e.timestamp
                 /\ snapshot.content = e.content
                 /\ snapshot.was_spoken = e.was_spoken
                 /\ snapshot.interaction_type = e.interaction_type
                 /\ snapshot.requires_response = e.requires_response
                 /\ snapshot.media_generated = e.media_generated]_vars

(***************************************************************************)
(* LearningMemory: progress tracking, save and load                        *)
(*                                                                         *)
(* A dictionary is a function on its keys; the nested activity_progress    *)
(* dictionary is a function on <<language, activity_type>> pairs.  The     *)
(* file is missing, unreadable as a pickle, or holds the pickled swap      *)
(* instance: its instance attributes.                                      *)
(***************************************************************************)
\* value of the session_history cap the model is checked at (100 in the source)
SessCap == 2
\* number of update_activity_progress calls explored
MaxProgress == 1

max_session_history == SessCap

\* update_vocabulary / update_grammar: the dictionary after the call
AddToList(dict, key, item) ==
    LET list == IF key \in DOMAIN dict THEN dict[key] ELSE <<>>
        grown == IF item \in Range(list) THEN list ELSE Append(list, item)
    IN  [k \in (DOMAIN dict) \cup {key} |-> IF k = key THEN grown ELSE dict[k]]

\* LearningMemory.update_activity_progress(language, activity_type): the
\* counter map, keyed by the pair, after the call
UpdateActivityProgress(progress, language, activity_type) ==
    LET key == <<language, activity_type>>
    IN  [k \in (DOMAIN progress) \cup {key} |->
            IF k = key
            THEN (IF key \in DOMAIN progress THEN progress[key] ELSE 0) + 1
            ELSE progress[k]]

\* add_session_to_history: the list after the call
AddSessionResult(history, session_data) ==
    LET grown == Append(history, session_data)
    IN  IF Len(grown) > max_session_history
        THEN Last(grown, max_session_history) ELSE grown

\* the instance attributes of the swap object save() pickles: __init__ sets
\* four empty ones, save() then assigns the class-level values
MutSwapLeftEmpty(snaps, vocabulary, grammar, progress, history) ==
    [vocabulary_learned |-> <<>>, grammar_points_covered |-> <<>>,
     activity_progress |-> <<>>, session_history |-> <<>>,
     historical_snapshots |-> snaps]
Swap(snaps, vocabulary, grammar, progress, history) ==
    [vocabulary_learned |-> vocabulary, grammar_points_covered |-> grammar,
     activity_progress |-> progress, session_history |-> history,
     historical_snapshots |-> snaps]

\* what unpickling the file's bytes yields: the attributes of the instance
\* that was pickled
Unpickled(f) == f.swap

\* failures of the file system a call can meet: none, open() fails (the path
\* is not accessible), or the transfer fails after the file was opened
IOFailures == {"none", "open", "transfer"}

\* LearningMemory.update_vocabulary(language, word)
UpdateVocabulary(language, word) ==
    /\ vocabulary_learned' = AddToList(vocabulary_learned, language, word)
    /\ call' = [op |-> "update_vocabulary", exc |-> "none"]
    /\ UNCHANGED <<now, all_learning_spots, current_session_spots,
                   historical_snapshots, inserted, spot_owner, snapAdded, sessionInserted,
                   grammar_points_covered, session_history, last_session_spots,
                   file, saved, profVars, progVars, ctx, engine, mgrVars>>

\* LearningMemory.update_grammar(language, grammar_point)
UpdateGrammar(language, grammar_point) ==
    /\ grammar_points_covered' =
           AddToList(grammar_points_covered, language, grammar_point)
    /\ call' = [op |-> "update_grammar", exc |-> "none"]
    /\ UNCHANGED <<now, all_learning_spots, current_session_spots,
                   historical_snapshots, inserted, spot_owner, snapAdded, sessionInserted,
                   vocabulary_learned, session_history, last_session_spots,
                   file, saved, profVars, progVars, ctx, engine, mgrVars>>

\* LearningMemory.update_activity_progress(language, activity_type)
CallUpdateActivityProgress(language, activity_type) ==
    /\ \A k \in DOMAIN activity_progress : activity_progress[k] < MaxProgress
    /\ activity_progress' =
           UpdateActivityProgress(activity_progress, language, activity_type)
    /\ call' = [op |-> "update_activity_progress", exc |-> "none"]
    /\ UNCHANGED <<now, memVars, profVars, activities, upcoming_activities,
                   current_activity, completed_activities, activity_history,
                   ctx, engine, mgrVars>>

\* LearningMemory.add_session_to_history(session_data)
AddSessionToHistory(session_data) ==
    /\ session_history' = AddSessionResult(session_history, session_data)
    /\ call' = [op |-> "add_session_to_history", exc |-> "none"]
    /\ UNCHANGED <<now, all_learning_spots, current_session_spots,
                   historical_snapshots, inserted, spot_owner, snapAdded, sessionInserted,
                   vocabulary_learned, grammar_points_covered,
                   last_session_spots, file, saved, profVars, progVars, ctx, engine,
                   mgrVars>>

\* LearningMemory.save(): open('learning_memory', 'wb') truncates the file,
\* pickle.dump writes the swap instance; nothing catches a failure of either
Save(io) ==
    LET swap == Swap(historical_snapshots, vocabulary_learned,
                     grammar_points_covered, activity_progress, session_history)
    IN  /\ file' = IF io = "open" THEN file
                   ELSE IF io = "transfer" THEN [kind |-> "unreadable"]
                   ELSE [kind |-> "pickle", swap |-> swap]
        /\ saved' = IF io = "none"
                    THEN <<vocabulary_learned, grammar_points_covered,
                           activity_progress, session_history,
                           historical_snapshots>>
                    ELSE saved
        /\ call' = [op |-> "save", io |-> io,
                    exc |-> IF io = "none" THEN "none" ELSE "OSError"]
        /\ UNCHANGED <<now, all_learning_spots, current_session_spots,
                       historical_snapshots, inserted, spot_owner, snapAdded,
                       sessionInserted, vocabulary_learned,
                       grammar_points_covered, session_history,
                       last_session_spots, profVars, progVars, ctx, engine, mgrVars>>

\* how LearningMemory.load() ends: the file was read, it does not exist
\* (FileNotFoundError), or another exception was caught and logged.  io "open"
\* is an OSError of open() other than FileNotFoundError and is raised whether
\* or not the file exists; io "transfer" is a failure while reading, which an
\* absent file does not get to.
LoadOutcome(f, io) ==
    IF io = "open" THEN "failed"
    ELSE IF f.kind = "missing" THEN "missing"
    ELSE IF io = "transfer" \/ f.kind = "unreadable" THEN "failed"
    ELSE "loaded"

\* LearningMemory.load(): the unpickled instance has the five attributes
\* save() gave it; all_learning_spots and current_session_spots are looked up
\* on it and found on the class
Load(io) ==
    LET outcome == LoadOutcome(file, io)
    IN  /\ call' = [op |-> "load", io |-> io, exc |-> "none",
                    outcome |-> outcome]
        /\ IF outcome = "loaded"
           THEN LET swap == Unpickled(file)
                IN  /\ all_learning_spots' = all_learning_spots
                    /\ last_session_spots' = current_session_spots
                    /\ vocabulary_learned' = swap.vocabulary_learned
                    /\ grammar_points_covered' = swap.grammar_points_covered
                    /\ activity_progress' = swap.activity_progress
                    /\ session_history' = swap.session_history
                    /\ historical_snapshots' = swap.historical_snapshots
           ELSE IF outcome = "missing"
           THEN /\ vocabulary_learned' = <<>>
                /\ grammar_points_covered' = <<>>
                /\ activity_progress' = <<>>
                /\ session_history' = <<>>
                /\ UNCHANGED <<all_learning_spots, last_session_spots,
                               historical_snapshots>>
           ELSE UNCHANGED <<all_learning_spots, last_session_spots,
                            vocabulary_learned, grammar_points_covered,
                            activity_progress, session_history,
                            historical_snapshots>>
        /\ UNCHANGED <<now, current_session_spots, inserted, spot_owner, snapAdded,
                       sessionInserted, file, saved, profVars, activities,
                       upcoming_activities, current_activity,
                       completed_activities, activity_history, ctx, engine, mgrVars>>

\* the environment removes the file or overwrites it with something else
FileChanges(kind) ==
    /\ file.kind # kind
    /\ file' = [kind |-> kind]
    /\ call' = [op |-> "environment", exc |-> "none"]
    /\ UNCHANGED <<now, all_learning_spots, current_session_spots,
                   historical_snapshots, inserted, spot_owner, snapAdded, sessionInserted,
                   vocabulary_learned, grammar_points_covered, session_history,
                   last_session_spots, saved, profVars, progVars, ctx, engine, mgrVars>>

\* The store is mutated, saved and loaded, with and without I/O failures.
NextStore ==
    \/ UpdateVocabulary("de", "Haus")
    \/ UpdateGrammar("de", "dative")
    \/ CallUpdateActivityProgress("de", "vocabulary_builder")
    \/ AddSessionToHistory("session")
    \/ /\ snapAdded = <<>>
       /\ AddSnapshot(1, FALSE, "vocabulary_builder")
    \/ /\ sessionInserted = 0
       /\ UpdateCurrentSessionSpots(FALSE, FALSE)
    \/ \E io \in IOFailures : Save(io)
    \/ \E io \in IOFailures : Load(io)
    \/ \E kind \in {"missing", "unreadable"} : FileChanges(kind)

SpecStore == Init /\ [][NextStore]_vars

\* the persisted fields of the class-level store
Persisted ==
    <<vocabulary_learned, grammar_points_covered, activity_progress,
      session_history, historical_snapshots>>

\* C16: neither load nor save raises; a load that finds no file leaves empty
\* progress maps, a load that fails otherwise and a save that fails leave the
\* store as it was.
C16_IOFailuresNotRaised ==
    [][/\ call'.op \in {"load", "save"} => call'.exc = "none"
       /\ (call'.op = "load" /\ call'.outcome = "missing") =>
             /\ vocabulary_learned' = <<>>
             /\ grammar_points_covered' = <<>>
             /\ activity_progress' = <<>>
             /\ session_history' = <<>>
       /\ (call'.op = "load" /\ call'.outcome = "failed") =>
             UNCHANGED <<Persisted, all_learning_spots, current_session_spots>>
       /\ (call'.op = "save" /\ call'.io # "none") =>
             UNCHANGED <<Persisted, all_learning_spots, current_session_spots>>
      ]_vars

\* C17: a load that reads the file gives the persisted fields the values they
\* had at the save that wrote it, whatever was changed since, and takes the
\* live spot lists from memory, not from the file.
C17_RoundTrip ==
    [][(call'.op = "load" /\ call'.outcome = "loaded") =>
          /\ Persisted' = saved
          /\ UNCHANGED <<all_learning_spots, current_session_spots>>]_vars

\* a load restored the saved fields over a store that had been changed since
\* the save: the word, grammar point and snapshot added after it are gone
C17_Witness ==
    /\ call.op = "load"
    /\ call.outcome = "loaded"
    /\ session_history # <<>>
    /\ vocabulary_learned = <<>>
    /\ grammar_points_covered = <<>>
    /\ historical_snapshots = <<>>
    /\ Len(snapAdded) = 1

(***************************************************************************)
(* LearningMemory.get_previous_session_spot on its own                     *)
(***************************************************************************)
\* LearningMemory.get_previous_session_spot(idx, creation_time)
CallGetPreviousSessionSpot(idx, creation_time) ==
    /\ call' = [op |-> "get_previous_session_spot", exc |-> "none",
                idx |-> idx, creation_time |-> creation_time,
                spot |-> GetPreviousSessionSpot(current_session_spots, idx,
                                                creation_time)]
    /\ UNCHANGED <<now, memVars, profVars, progVars, ctx, engine, mgrVars>>

NextLookup ==
    \/ \E w \in BOOLEAN : UpdateCurrentSessionSpots(w, FALSE)
    \/ \E idx \in 0..MaxIdx, t \in {NoTime} \cup (0..MaxNow) :
          CallGetPreviousSessionSpot(idx, t)
    \/ Tick

SpecLookup == Init /\ [][NextLookup]_vars

\* 0-based positions from idx on whose spot is older than created_before
OlderFrom(idx, created_before) ==
    {i \in idx..(Len(current_session_spots) - 1) :
        current_session_spots[i + 1].timestamp < created_before}

\* the spot at 0-based position i of current_session_spots, None out of range
SpotAt(i) ==
    IF i < Len(current_session_spots) THEN current_session_spots[i + 1] ELSE None

\* C11: without created_before the lookup returns the spot at position idx
\* (None out of range); with it, None when no position from idx on holds an
\* older spot, else the spot at base + idx (None out of range), base being the
\* first such position.
C11_PreviousSessionSpot ==
    call.op = "get_previous_session_spot" =>
        IF call.creation_time = NoTime
        THEN call.spot = SpotAt(call.idx)
        ELSE LET older == OlderFrom(call.idx, call.creation_time)
             IN  IF older = {} THEN call.spot = None
                 ELSE LET base == CHOOSE i \in older : \A j \in older : i <= j
                      IN  call.spot = SpotAt(base + call.idx)

\* idx 1 served both as scan start and as offset: the first older spot from
\* position 1 on is at position 1 and the spot returned is the one at 2
C11_Witness ==
    /\ call.op = "get_previous_session_spot"
    /\ call.idx = 1
    /\ call.creation_time # NoTime
    /\ 1 \in OlderFrom(1, call.creation_time)
    /\ Len(current_session_spots) >= 3
    /\ call.spot = current_session_spots[3]

(***************************************************************************)
(* LearningActivity and LearningProgression                                *)
(***************************************************************************)
\* number of LearningActivity objects created
MaxActivities == 2
\* completed_activities is explored up to this length
MaxCompleted == 2
\* user responses explored per activity
MaxResponses == 1
\* reorder_activities is called with lists of up to this length
MaxOrderLen == 2

\* LearningActivity(...) constructed at time t: __post_init__ sets
\* user_responses and start_time; requires_response stands for
\* bool(expected_responses)
LearningActivity(activity_type, content, difficulty_level, requires_response, learning_spot, t) ==
    [activity_type |-> activity_type, content |-> content,
     difficulty_level |-> difficulty_level,
     requires_response |-> requires_response, completed |-> FALSE,
     user_responses |-> <<>>, start_time |-> t, end_time |-> NoTime,
     learning_spot |-> learning_spot]

\* the guard of reorder_activities
MutRejectsLongerOnly(new_order, queue) == Len(new_order) > Len(queue)
LengthMismatch(new_order, queue) == Len(new_order) # Len(queue)

\* Python's list[i] for an index in range, negative indices from the end
PyIndex(list, i) == IF i >= 0 THEN list[i + 1] ELSE list[Len(list) + i + 1]
InRange(list, i) == i < Len(list) /\ i >= -Len(list)

\* LearningProgression.reorder_activities(new_order): the queue after the call
ReorderActivitiesResult(queue, new_order) ==
    IF LengthMismatch(new_order, queue)
    THEN [queue |-> queue, exc |-> "none"]
    ELSE IF \E i \in 1..Len(new_order) : ~InRange(queue, new_order[i])
    THEN [queue |-> queue, exc |-> "IndexError"]
    ELSE [queue |-> [i \in 1..Len(new_order) |-> PyIndex(queue, new_order[i])],
          exc |-> "none"]

\* how often activity id occurs in a list of activities
Occurrences(list, id) == Cardinality({i \in DOMAIN list : list[i] = id})

\* difficulty_level as adjust_difficulty assigns it
Clamp(level, adjustment) == Max(1, Min(10, level + adjustment))

\* progression.add_activity(LearningActivity(...)) with an activity constructed
\* now; with_spot: the caller gave it a LearningSpot, whose was_spoken the
\* caller chose
AddActivity(activity_type, difficulty_level, requires_response, with_spot, was_spoken) ==
    /\ Len(activities) < MaxActivities
    /\ LET id == Len(activities) + 1
           spot == IF with_spot
                   THEN LearningSpot(<<"a", id>>, "c", now, was_spoken,
                                     requires_response)
                   ELSE None
       IN  /\ activities' = Append(activities,
                                   LearningActivity(activity_type, "c",
                                                    difficulty_level,
                                                    requires_response, spot, now))
           /\ upcoming_activities' = Append(upcoming_activities, id)
    /\ activity_progress' =
           UpdateActivityProgress(activity_progress, activity_type,
                                  Len(upcoming_activities) + 1)
    /\ call' = [op |-> "add_activity", exc |-> "none"]
    /\ UNCHANGED <<now, memVars, profVars, current_activity, completed_activities,
                   activity_history, ctx, engine, mgrVars>>

\* progression.start_next_activity(): on a non-empty queue the front activity
\* becomes current and gets its start_time; the LearningSpot(...) call that
\* follows passes activity_type, which LearningSpot does not accept, and no
\* timestamp: it raises TypeError
StartNextActivity ==
    /\ IF upcoming_activities = <<>>
       THEN /\ call' = [op |-> "start_next_activity", exc |-> "none",
                        result |-> NoActivity]
            /\ UNCHANGED <<activities, upcoming_activities, current_activity>>
       ELSE /\ current_activity' = Head(upcoming_activities)
            /\ upcoming_activities' = Tail(upcoming_activities)
            /\ activities' = [activities EXCEPT
                                ![Head(upcoming_activities)].start_time = now]
            /\ call' = [op |-> "start_next_activity", exc |-> "TypeError"]
    /\ UNCHANGED <<now, memVars, profVars, completed_activities, activity_history,
                   activity_progress, ctx, engine, mgrVars>>

\* LearningActivity.mark_completed() on activity a at time t; the completed
\* and end_time it also sets on the activity's spot are attributes no code
\* reads, and no field of the model's LearningSpot
MarkCompleted(a, t) ==
    [a EXCEPT !.completed = TRUE, !.end_time = t]

\* LearningActivity.add_user_response(response) on activity a: the response
\* is appended, then the append to the spot's user_responses, an attribute
\* LearningSpot does not have, raises when the activity has a spot
ActivityAddUserResponse(a, response) ==
    [activity |-> [a EXCEPT !.user_responses = Append(@, response)],
     exc |-> IF a.learning_spot = None THEN "none" ELSE "AttributeError"]

\* progression.complete_current_activity(): mark_completed, the two appends,
\* then update_all_learning_spots, which raises on a spot of None and so
\* leaves current_activity set
CompleteCurrentActivity ==
    /\ Len(completed_activities) < MaxCompleted
    /\ Len(inserted) < MaxInserts
    /\ IF current_activity = NoActivity
       THEN /\ call' = [op |-> "complete_current_activity", exc |-> "none"]
            /\ UNCHANGED <<activities, current_activity, completed_activities,
                           activity_history, all_learning_spots,
                           historical_snapshots, inserted, spot_owner>>
       ELSE LET a == activities[current_activity]
                r == UpdateAllLearningSpotsResult(all_learning_spots,
                                                  historical_snapshots,
                                                  a.learning_spot, a.activity_type)
            IN  /\ activities' = [activities EXCEPT
                                    ![current_activity] = MarkCompleted(@, now)]
                /\ completed_activities' =
                       Append(completed_activities, current_activity)
                /\ activity_history' = Append(activity_history, current_activity)
                /\ all_learning_spots' = r.spots
                /\ historical_snapshots' = r.snaps
                /\ inserted' = IF r.exc = "none"
                               THEN Append(inserted, a.learning_spot.timestamp)
                               ELSE inserted
                /\ spot_owner' = IF r.exc = "none"
                                 THEN Owners(spot_owner, r.spots, a.learning_spot,
                                             a.activity_type)
                                 ELSE spot_owner
                /\ current_activity' = IF r.exc = "none" THEN NoActivity
                                       ELSE current_activity
                /\ call' = [op |-> "complete_current_activity", exc |-> r.exc]
    /\ UNCHANGED <<now, current_session_spots, snapAdded, sessionInserted,
                   storeVars, profVars, upcoming_activities, activity_progress,
                   ctx, engine, mgrVars>>

\* progression.add_user_response(response): the activity appends the response,
\* then appends to its spot's user_responses, an attribute LearningSpot does
\* not have: AttributeError when the activity has a spot
AddUserResponse(response) ==
    /\ IF current_activity = NoActivity
       THEN /\ call' = [op |-> "add_user_response", exc |-> "none",
                        response |-> response]
            /\ UNCHANGED activities
       ELSE /\ Len(activities[current_activity].user_responses) < MaxResponses
            /\ LET r == ActivityAddUserResponse(activities[current_activity],
                                                response)
               IN  /\ activities' = [activities EXCEPT
                                       ![current_activity] = r.activity]
                   /\ call' = [op |-> "add_user_response",
                               response |-> response, exc |-> r.exc]
    /\ UNCHANGED <<now, memVars, profVars, upcoming_activities, current_activity,
                   completed_activities, activity_history, activity_progress,
                   ctx, engine, mgrVars>>

\* the loop of adjust_difficulty met one activity n times
RECURSIVE ClampTimes(_, _, _)
ClampTimes(level, adjustment, n) ==
    IF n = 0 THEN level
    ELSE ClampTimes(Clamp(level, adjustment), adjustment, n - 1)

\* progression.adjust_difficulty(adjustment): the loop assigns to every entry
\* of the queue, so an activity that is in the queue n times is adjusted n
\* times
AdjustDifficulty(adjustment) ==
    /\ activities' =
           [id \in 1..Len(activities) |->
               [activities[id] EXCEPT
                   !.difficulty_level =
                       ClampTimes(@, adjustment,
                                  Occurrences(upcoming_activities, id))]]
    /\ call' = [op |-> "adjust_difficulty", exc |-> "none",
                adjustment |-> adjustment]
    /\ UNCHANGED <<now, memVars, profVars, upcoming_activities, current_activity,
                   completed_activities, activity_history, activity_progress,
                   ctx, engine, mgrVars>>

\* progression.reorder_activities(new_order)
ReorderActivities(new_order) ==
    /\ LET r == ReorderActivitiesResult(upcoming_activities, new_order)
       IN  /\ upcoming_activities' = r.queue
           /\ call' = [op |-> "reorder_activities", exc |-> r.exc,
                       order_len |-> Len(new_order), new_order |-> new_order]
    /\ UNCHANGED <<now, memVars, profVars, activities, current_activity,
                   completed_activities, activity_history, activity_progress,
                   ctx, engine, mgrVars>>

\* the index lists reorder_activities is called with
RECURSIVE SeqsUpTo(_, _)
SeqsUpTo(S, n) ==
    IF n = 0 THEN {<<>>}
    ELSE LET shorter == SeqsUpTo(S, n - 1)
         IN  shorter \cup {Append(q, x) : q \in shorter, x \in S}

NewOrders == SeqsUpTo(-1..(MaxActivities - 1), MaxOrderLen)

NextProgression ==
    \/ \E d \in {1, 5}, ws \in BOOLEAN :
          AddActivity("vocabulary_builder", d, TRUE, ws, FALSE)
    \/ StartNextActivity
    \/ CompleteCurrentActivity
    \/ AddUserResponse("r")
    \/ \E adj \in {-9, 4} : AdjustDifficulty(adj)
    \/ \E o \in NewOrders : ReorderActivities(o)

SpecProgression == Init /\ [][NextProgression]_vars

\* activity.mark_completed() called directly on the activity with identity id
CallMarkCompleted(id) ==
    /\ id \in 1..Len(activities)
    /\ activities' = [activities EXCEPT ![id] = MarkCompleted(@, now)]
    /\ call' = [op |-> "mark_completed", exc |-> "none"]
    /\ UNCHANGED <<now, memVars, profVars, upcoming_activities, current_activity,
                   completed_activities, activity_history, activity_progress,
                   ctx, engine, mgrVars>>

\* activity.add_user_response(response) called directly on the activity with
\* identity id
CallActivityAddUserResponse(id, response) ==
    /\ id \in 1..Len(activities)
    /\ Len(activities[id].user_responses) < MaxResponses
    /\ LET r == ActivityAddUserResponse(activities[id], response)
       IN  /\ activities' = [activities EXCEPT ![id] = r.activity]
           /\ call' = [op |-> "activity.add_user_response", exc |-> r.exc]
    /\ UNCHANGED <<now, memVars, profVars, upcoming_activities, current_activity,
                   completed_activities, activity_history, activity_progress,
                   ctx, engine, mgrVars>>

\* The progression's operations together with the methods of LearningActivity
\* a caller invokes on the activity objects themselves, queued, current or
\* completed, while the clock runs.
NextActivity ==
    \/ \E ws \in BOOLEAN : AddActivity("vocabulary_builder", 1, TRUE, ws, FALSE)
    \/ StartNextActivity
    \/ CompleteCurrentActivity
    \/ AddUserResponse("r")
    \/ \E id \in 1..MaxActivities : CallMarkCompleted(id)
    \/ \E id \in 1..MaxActivities : CallActivityAddUserResponse(id, "r")
    \/ Tick

SpecActivity == Init /\ [][NextActivity]_vars

(***************************************************************************)
(* LearningSpot objects across the profile, LearningMemory and the         *)
(* progression                                                             *)
(***************************************************************************)
\* Everything that creates, stores, moves or marks a LearningSpot: profile
\* construction, mark_as_spoken, reset, the inserts (with their evictions)
\* into both LearningMemory lists, and the progression's transitions of
\* an activity that holds a spot, whose completion inserts the spot into
\* LearningMemory.  The spots a caller inserts into the two lists are spoken
\* ones; the spots of the history start unspoken and the activity's spot is
\* of either kind.
NextSpoken ==
    \/ \E c \in {"a", "b"} :
          Construct("vocabulary_builder", None, c, "memory", "none",
                    enable_visual_learning, FALSE, FALSE, FALSE)
    \/ MarkAsSpoken
    \/ Reset
    \/ UpdateAllLearningSpots(1, TRUE, "vocabulary_builder")
    \/ UpdateCurrentSessionSpots(TRUE, FALSE)
    \/ /\ activities = <<>>
       /\ \E w \in BOOLEAN :
             AddActivity("vocabulary_builder", 5, FALSE, TRUE, w)
    \/ StartNextActivity
    \/ CompleteCurrentActivity
    \/ AddUserResponse("r")

SpecSpoken == Init /\ [][NextSpoken]_vars

\* the LearningSpot objects the activities hold
ActivitySpots ==
    {activities[id].learning_spot : id \in 1..Len(activities)} \ {None}

\* every LearningSpot object some list or activity references
AllSpots ==
    Range(interaction_history) \cup Range(all_learning_spots)
        \cup Range(current_session_spots)
        \cup (IF profile = None THEN {} ELSE Range(profile.own_history))
        \cup ActivitySpots

\* C4: no step changes the was_spoken of any LearningSpot from true to false.
C4_SpokenMonotonic ==
    [][\A s \in AllSpots : \A s2 \in AllSpots' :
          (s.id = s2.id /\ s.was_spoken) => s2.was_spoken]_vars

\* a marked spot has lived through a later construction that truncated the
\* history and through evictions from both LearningMemory lists, and a spoken
\* spot held by an activity went through start, response and completion into
\* LearningMemory and was evicted from it by later inserts
C4_Witness ==
    /\ profile # None
    /\ profile.has_own_history
    /\ \E s \in Range(interaction_history) : s.was_spoken
    /\ \E s \in Range(profile.own_history) : s.was_spoken
    /\ DOMAIN historical_snapshots # {}
    /\ sessionInserted > max_memory_size
    /\ \E id \in 1..Len(activities) :
          /\ activities[id].learning_spot # None
          /\ activities[id].learning_spot.was_spoken
          /\ activities[id].completed
          /\ activities[id].user_responses # <<>>
          /\ current_activity # id
          /\ \A s \in Range(all_learning_spots) :
                s.id # activities[id].learning_spot.id

\* C8: reorder_activities with a list whose length differs from the queue's
\* raises nothing and leaves the queue, the current activity, the completed
\* activities and the history as they were.
C8_ReorderRejectsLengthMismatch ==
    [][(/\ call'.op = "reorder_activities"
        /\ call'.order_len # Len(upcoming_activities))
          => /\ call'.exc = "none"
             /\ UNCHANGED <<activities, upcoming_activities, current_activity,
                            completed_activities, activity_history>>]_vars

\* a queue of 2 activities was asked to reorder with a list of 1
C8_Witness ==
    /\ call.op = "reorder_activities"
    /\ call.order_len = 1
    /\ Len(upcoming_activities) = 2

\* the number of places (queue, current, completed) activity id is in
Places(id) ==
    Occurrences(upcoming_activities, id) + Occurrences(completed_activities, id)
        + (IF current_activity = id THEN 1 ELSE 0)

\* C12: every activity that was added is in exactly one of upcoming_activities,
\* current_activity and completed_activities, and after
\* complete_current_activity there is no current activity.
C12_ExactlyOnePlace ==
    /\ \A id \in 1..Len(activities) : Places(id) = 1
    /\ call.op = "complete_current_activity" => current_activity = NoActivity

\* C21: start_next_activity on a non-empty queue raises nothing, removes the
\* front activity from the queue, makes it current with start_time set to
\* the time of the call, and attaches a LearningSpot that did not exist before,
\* with the activity's content and requires_response = bool(expected_responses);
\* on an empty queue it returns None and changes nothing.
C21_StartNextActivity ==
    [][call'.op = "start_next_activity" =>
          IF upcoming_activities = <<>>
          THEN /\ call'.exc = "none"
               /\ call'.result = NoActivity
               /\ UNCHANGED <<memVars, progVars>>
          ELSE LET id == Head(upcoming_activities)
               IN  /\ call'.exc = "none"
                   /\ upcoming_activities' = Tail(upcoming_activities)
                   /\ current_activity' = id
                   /\ activities'[id].start_time = now
                   /\ activities'[id].learning_spot # None
                   /\ activities'[id].learning_spot # activities[id].learning_spot
                   /\ activities'[id].learning_spot.content = activities[id].content
                   /\ activities'[id].learning_spot.requires_response
                          = activities[id].requires_response]_vars

\* a is b with some elements left out
RECURSIVE IsSubSeq(_, _)
IsSubSeq(a, b) ==
    IF a = <<>> THEN TRUE
    ELSE IF b = <<>> THEN FALSE
    ELSE IF Head(a) = Head(b) THEN IsSubSeq(Tail(a), Tail(b))
    ELSE IsSubSeq(a, Tail(b))

\* C22: complete_current_activity with a current activity marks it completed,
\* appends it once to completed_activities and once to activity_history, puts
\* its learning spot at the front of all_learning_spots and leaves no current
\* activity; with no current activity it changes nothing.  After every step
\* completed_activities is a sub-sequence of activity_history.
C22_CompleteCurrentActivity ==
    [][/\ IsSubSeq(completed_activities', activity_history')
       /\ call'.op = "complete_current_activity" =>
             IF current_activity = NoActivity
             THEN UNCHANGED <<memVars, progVars>>
             ELSE LET id == current_activity
                  IN  /\ call'.exc = "none"
                      /\ activities'[id].completed
                      /\ completed_activities' = Append(completed_activities, id)
                      /\ activity_history' = Append(activity_history, id)
                      /\ all_learning_spots' # <<>>
                      /\ all_learning_spots'[1] = activities[id].learning_spot
                      /\ current_activity' = NoActivity]_vars

\* a is an initial part of b
IsPrefix(a, b) == Len(a) <= Len(b) /\ \A i \in 1..Len(a) : a[i] = b[i]

\* C23: add_user_response(r) with a current activity raises nothing and
\* appends r once to the activity's user_responses and once to the
\* user_responses of its learning spot, if it has one; with no current
\* activity it changes nothing.  No step removes or changes a recorded
\* response.
C23_AddUserResponse ==
    [][/\ \A id \in 1..Len(activities) :
             IsPrefix(activities[id].user_responses, activities'[id].user_responses)
       /\ call'.op = "add_user_response" =>
             IF current_activity = NoActivity
             THEN UNCHANGED <<memVars, progVars>>
             ELSE LET a == activities[current_activity]
                      b == activities'[current_activity]
                  IN  /\ call'.exc = "none"
                      /\ b.user_responses = Append(a.user_responses, call'.response)
                      /\ a.learning_spot # None =>
                            /\ "user_responses" \in DOMAIN b.learning_spot
                            /\ Len(b.learning_spot.user_responses) = 1]_vars

\* order lists every index 0..n-1 once
IsPermutation(order, n) ==
    /\ Len(order) = n
    /\ Range(order) = 0..(n - 1)

\* C24: reorder_activities(new_order) never raises; a new_order that is a
\* permutation of 0..len(queue)-1 leaves the queue with the same activities,
\* each as often as before, and any other new_order leaves the queue as it
\* was.
C24_ReorderOnlyPermutations ==
    [][call'.op = "reorder_activities" =>
          /\ call'.exc = "none"
          /\ \A id \in 1..Len(activities) :
                Occurrences(upcoming_activities', id)
                    = Occurrences(upcoming_activities, id)
          /\ ~IsPermutation(call'.new_order, Len(upcoming_activities)) =>
                upcoming_activities' = upcoming_activities]_vars

\* C25: after adjust_difficulty(delta) every queued activity has
\* difficulty_level max(1, min(10, old + delta)), which is within 1..10, and
\* the current activity, the completed activities and the order of the queue
\* are as before.
C25_AdjustDifficulty ==
    [][call'.op = "adjust_difficulty" =>
          /\ \A i \in 1..Len(upcoming_activities) :
                LET id == upcoming_activities[i]
                    sum == activities[id].difficulty_level + call'.adjustment
                IN  /\ activities'[id].difficulty_level =
                          (IF sum < 1 THEN 1 ELSE IF sum > 10 THEN 10 ELSE sum)
                    /\ activities'[id].difficulty_level \in 1..10
          /\ UNCHANGED <<upcoming_activities, current_activity,
                         completed_activities>>
          /\ current_activity # NoActivity =>
                activities'[current_activity] = activities[current_activity]
          /\ \A i \in 1..Len(completed_activities) :
                activities'[completed_activities[i]]
                    = activities[completed_activities[i]]]_vars

\* C28: an activity's end_time is assigned only by the mark_completed of
\* complete_current_activity, only on an activity whose start_time is set and
\* whose end_time is not, so it is set once and never changes; no activity is
\* completed more than once.
C28_EndTimeSetOnce ==
    [][/\ \A id \in 1..Len(activities) :
             /\ activities[id].end_time # NoTime =>
                   activities'[id].end_time = activities[id].end_time
             /\ activities'[id].end_time # activities[id].end_time =>
                   /\ call'.op = "complete_current_activity"
                   /\ id = current_activity
                   /\ activities[id].start_time # NoTime
             /\ Occurrences(completed_activities', id) <= 1
       /\ (call'.op = "complete_current_activity"
              /\ current_activity # NoActivity) =>
             /\ ~activities[current_activity].completed
             /\ activities[current_activity].end_time = NoTime]_vars

(***************************************************************************)
(* SessionContext                                                          *)
(***************************************************************************)
UserAction == {"NONE", "PAUSE", "RESUME", "STOP", "SKIP_ACTIVITY", "CANCEL"}

\* pause_duration of a RESUME at time t
MutPauseDurationSinceStart(c, t) == t - c.start_time
PauseDuration(c, t) == t - c.pause_time

\* total_time of a STOP or CANCEL whose end_time is t
TotalTime(c, t) == t - c.start_time

\* SessionContext.update_action(action) on context c with the clock at t
UpdateActionResult(c, action, t) ==
    LET c1 == [c EXCEPT !.last_user_action = action, !.last_action_time = t]
    IN  IF action = "PAUSE"
        THEN [c1 EXCEPT !.is_paused = TRUE, !.pause_time = t]
        ELSE IF action = "RESUME"
        THEN IF c1.pause_time # NoTime
             THEN [c1 EXCEPT !.is_paused = FALSE,
                             !.time_spent = @ + PauseDuration(c1, t),
                             !.pause_time = NoTime]
             ELSE [c1 EXCEPT !.is_paused = FALSE]
        ELSE IF action = "STOP"
        THEN [c1 EXCEPT !.end_time = t, !.total_time = TotalTime(c1, t)]
        ELSE IF action = "SKIP_ACTIVITY"
        THEN [c1 EXCEPT !.skip_current_activity = TRUE]
        ELSE IF action = "CANCEL"
        THEN [c1 EXCEPT !.is_cancelled = TRUE, !.end_time = t,
                        !.total_time = TotalTime(c1, t)]
        ELSE c1

\* a SessionContext is constructed now, as LearningSession.__init__ does
NewContext ==
    /\ ctx' = NewSessionContext(now)
    /\ call' = [op |-> "SessionContext", exc |-> "none"]
    /\ UNCHANGED <<now, memVars, profVars, progVars, engine, mgrVars>>

\* ctx.update_action(action)
UpdateAction(action) ==
    /\ ctx' = UpdateActionResult(ctx, action, now)
    /\ call' = [op |-> "update_action", exc |-> "none", action |-> action]
    /\ UNCHANGED <<now, memVars, profVars, progVars, engine, mgrVars>>

\* SessionContext.set_current_activity(activity) on context c
MutSetCurrentActivityKeepsSkip(c, activity) ==
    [c EXCEPT !.current_activity = activity]
SetCurrentActivityResult(c, activity) ==
    [c EXCEPT !.current_activity = activity, !.skip_current_activity = FALSE]

\* ctx.set_current_activity(activity)
SetCurrentActivity(activity) ==
    /\ ctx' = SetCurrentActivityResult(ctx, activity)
    /\ call' = [op |-> "set_current_activity", exc |-> "none"]
    /\ UNCHANGED <<now, memVars, profVars, progVars, engine, mgrVars>>

\* SessionContext.get_elapsed_time() on context c with the clock at t
MutGetElapsedTimeIgnoresPause(c, t) ==
    IF c.end_time # NoTime THEN c.total_time ELSE t - c.start_time
GetElapsedTime(c, t) ==
    IF c.end_time # NoTime THEN c.total_time
    ELSE IF c.is_paused /\ c.pause_time # NoTime THEN c.time_spent
    ELSE t - c.start_time

\* ctx.get_elapsed_time()
CallGetElapsedTime ==
    /\ call' = [op |-> "get_elapsed_time", exc |-> "none",
                val |-> GetElapsedTime(ctx, now), at |-> now]
    /\ UNCHANGED <<now, memVars, profVars, progVars, ctx, engine, mgrVars>>

NextContext ==
    \/ NewContext
    \/ \E a \in UserAction : UpdateAction(a)
    \/ SetCurrentActivity("vocabulary_builder")
    \/ CallGetElapsedTime
    \/ Tick

SpecContext == Init /\ [][NextContext]_vars

\* C9: a PAUSE at t1 records t1; a RESUME at t2 of a context paused at t1 adds
\* exactly t2 - t1 to time_spent and clears pause_time; a STOP at t3 sets
\* total_time to t3 - start_time, whatever was spent paused.
C9_PauseResumeStop ==
    [][(call'.op = "update_action" /\ now' = now) =>
          /\ call'.action = "PAUSE" => ctx'.pause_time = now
          /\ (call'.action = "RESUME" /\ ctx.pause_time # NoTime) =>
                /\ ctx'.time_spent = ctx.time_spent + (now - ctx.pause_time)
                /\ ctx'.pause_time = NoTime
          /\ call'.action = "STOP" =>
                /\ ctx'.total_time = now - ctx.start_time
                /\ ctx'.time_spent = ctx.time_spent]_vars

\* the claim's example at a tenth of its scale: started at 1, paused from 2 to
\* 5 (time_spent 3), stopped at 6 with total_time 5
C9_Witness ==
    /\ call.op = "update_action"
    /\ call.action = "STOP"
    /\ ctx.start_time = 1
    /\ ctx.time_spent = 3
    /\ ctx.pause_time = NoTime
    /\ ctx.end_time = 6
    /\ ctx.total_time = 5

\* C15: get_elapsed_time returns total_time once the session has ended, else
\* time_spent while it is paused (whatever the clock shows), else the time
\* since start_time.
C15_ElapsedTime ==
    call.op = "get_elapsed_time" =>
        call.val = IF ctx.end_time # NoTime THEN ctx.total_time
                   ELSE IF ctx.is_paused THEN ctx.time_spent
                   ELSE call.at - ctx.start_time

\* a paused, running session was asked after the clock had advanced past the
\* pause and answered time_spent, not the time since its start
C15_Witness ==
    /\ call.op = "get_elapsed_time"
    /\ ctx.end_time = NoTime
    /\ ctx.is_paused
    /\ call.at > ctx.pause_time
    /\ call.val = ctx.time_spent
    /\ call.val # call.at - ctx.start_time

(***************************************************************************)
(* LearningEngine on its SessionContext                                    *)
(*                                                                         *)
(* The engine's state is the context ctx.  LearningEngine.__init__ assigns *)
(* the engine's fields and then raises in _setup_voice (Voice defines no   *)
(* set_language); the operations below are those of the object the         *)
(* assignments leave.  Its config is a SessionConfig, which has no         *)
(* target_language, proficiency_level or custom_settings unless the caller *)
(* assigns them.  Prompter is not part of the sources: a call of it either *)
(* returns or raises.                                                      *)
(***************************************************************************)
\* the context's activities_completed is explored up to this length
MaxCtxCompleted == 1

\* SessionContext.is_active() on context c
MutIsActiveIgnoresEnd(c) == ~c.is_cancelled /\ ~c.is_paused
MutIsActiveIgnoresPause(c) == ~c.is_cancelled /\ c.end_time = NoTime
IsActive(c) == ~c.is_cancelled /\ ~c.is_paused /\ c.end_time = NoTime

\* results.get(key, [])
DictGet(results, key) == IF key \in DOMAIN results THEN results[key] ELSE <<>>

\* SessionContext.complete_activity(activity, results) on context c at time t
CompleteActivityResult(c, activity, results, t) ==
    LET c1 == [c EXCEPT !.activities_completed =
                            Append(@, [activity |-> activity, results |-> results,
                                       completion_time |-> t])]
    IN  IF activity = "vocabulary_builder"
        THEN [c1 EXCEPT !.vocabulary_learned = @ \o DictGet(results, "new_words")]
        ELSE IF activity = "grammar_practice"
        THEN [c1 EXCEPT !.grammar_points_covered =
                            @ \o DictGet(results, "grammar_points")]
        ELSE c1

\* self.activity_results as start_activity assigns it at time t, before the
\* prompt is fetched
ActivityResults(activity_type, t) ==
    [start_time |-> t, activity_type |-> activity_type, responses |-> <<>>,
     media_generated |-> <<>>]

\* the keys start_activity adds after the prompt was fetched
ActivitySpecificState(activity_type) ==
    IF activity_type = "vocabulary_builder"
    THEN [new_words |-> <<>>, word_contexts |-> <<>>]
    ELSE IF activity_type = "grammar_practice"
    THEN [grammar_points |-> <<>>, examples |-> <<>>]
    ELSE <<>>

\* ctx.should_skip_current_activity()
CallShouldSkipCurrentActivity ==
    /\ call' = [op |-> "should_skip_current_activity", exc |-> "none",
                result |-> ctx.skip_current_activity]
    /\ UNCHANGED <<now, memVars, profVars, progVars, ctx, engine, mgrVars>>

\* ctx.is_active()
CallIsActive ==
    /\ call' = [op |-> "is_active", exc |-> "none", result |-> IsActive(ctx)]
    /\ UNCHANGED <<now, memVars, profVars, progVars, ctx, engine, mgrVars>>

\* ctx.complete_activity(activity, results)
CompleteActivity(activity, results) ==
    /\ Len(ctx.activities_completed) < MaxCtxCompleted
    /\ ctx' = CompleteActivityResult(ctx, activity, results, now)
    /\ call' = [op |-> "complete_activity", exc |-> "none"]
    /\ UNCHANGED <<now, memVars, profVars, progVars, engine, mgrVars>>

\* the SessionConfig objects the engine is given: as SessionConfig.__init__
\* leaves them, or with target_language and proficiency_level assigned
EngineConfigs == {"SessionConfig", "with_language"}

\* LearningEngine.start_activity(activity_type) on context c and engine eng
\* at time t: the engine after the call and the exception raised.  Reading
\* self.config.target_language for get_prompt raises AttributeError on a
\* plain SessionConfig; prompt_raises is the outcome of get_prompt; the
\* final self.config.to_dict() raises AttributeError (custom_settings).
StartActivityResult(c, eng, activity_type, config, prompt_raises, t) ==
    IF ~IsActive(c) THEN [engine |-> eng, exc |-> "Exception"]
    ELSE IF config = "SessionConfig"
    THEN [engine |-> [current_activity |-> activity_type,
                      activity_results |-> ActivityResults(activity_type, t)],
          exc |-> "AttributeError"]
    ELSE IF prompt_raises
    THEN [engine |-> [current_activity |-> activity_type,
                      activity_results |-> ActivityResults(activity_type, t)],
          exc |-> "Exception"]
    ELSE [engine |-> [current_activity |-> activity_type,
                      activity_results |->
                          ActivitySpecificState(activity_type)
                              @@ ActivityResults(activity_type, t)],
          exc |-> "AttributeError"]

\* engine.start_activity(activity_type)
StartActivity(activity_type, config, prompt_raises) ==
    /\ LET r == StartActivityResult(ctx, engine, activity_type, config,
                                    prompt_raises, now)
       IN  /\ engine' = r.engine
           /\ call' = [op |-> "start_activity", exc |-> r.exc,
                       activity_type |-> activity_type,
                       rejected |-> ~IsActive(ctx)]
    /\ UNCHANGED <<now, memVars, profVars, progVars, ctx, mgrVars>>

\* LearningEngine.complete_activity() on context c and engine eng at time t
EngineCompleteActivityResult(c, eng, t) ==
    IF eng.current_activity = NoneStr
    THEN [state |-> c, engine |-> eng, exc |-> "Exception"]
    ELSE LET results == [end_time |-> t,
                         duration |-> t - eng.activity_results.start_time]
                            @@ eng.activity_results
         IN  [state |-> CompleteActivityResult(c, eng.current_activity,
                                               results, t),
              engine |-> NewLearningEngine, exc |-> "none"]

\* LearningEngine.handle_user_action(action) on context c and engine eng at
\* time t: update_action, then voice.pause() / voice.resume(), which Voice
\* does not define, or complete_activity()
EngineHandleUserAction(c, eng, action, t) ==
    LET c1 == UpdateActionResult(c, action, t)
    IN  IF action \in {"PAUSE", "RESUME"}
        THEN [state |-> c1, engine |-> eng, exc |-> "AttributeError"]
        ELSE IF action = "SKIP_ACTIVITY"
        THEN EngineCompleteActivityResult(c1, eng, t)
        ELSE [state |-> c1, engine |-> eng, exc |-> "none"]

\* LearningEngine.cleanup() on engine eng: self.voice.cleanup() raises, for
\* Voice defines no cleanup, before current_activity and activity_results
\* are reset
EngineCleanupResult(eng) ==
    [engine |-> eng, exc |-> "AttributeError"]

\* engine.cleanup()
CallEngineCleanup ==
    /\ LET r == EngineCleanupResult(engine)
       IN  /\ engine' = r.engine
           /\ call' = [op |-> "engine.cleanup", exc |-> r.exc]
    /\ UNCHANGED <<now, memVars, profVars, progVars, ctx, mgrVars>>

\* engine.complete_activity()
EngineCompleteActivity ==
    /\ engine.current_activity # NoneStr =>
          Len(ctx.activities_completed) < MaxCtxCompleted
    /\ LET r == EngineCompleteActivityResult(ctx, engine, now)
       IN  /\ ctx' = r.state
           /\ engine' = r.engine
           /\ call' = [op |-> "engine.complete_activity", exc |-> r.exc]
    /\ UNCHANGED <<now, memVars, profVars, progVars, mgrVars>>

\* engine.handle_user_action(action)
CallEngineHandleUserAction(action) ==
    /\ (action = "SKIP_ACTIVITY" /\ engine.current_activity # NoneStr) =>
          Len(ctx.activities_completed) < MaxCtxCompleted
    /\ LET r == EngineHandleUserAction(ctx, engine, action, now)
       IN  /\ ctx' = r.state
           /\ engine' = r.engine
           /\ call' = [op |-> "engine.handle_user_action", exc |-> r.exc,
                       action |-> action]
    /\ UNCHANGED <<now, memVars, profVars, progVars, mgrVars>>

\* The operations on one session's context and engine.  The clock stands
\* still.
NextEngine ==
    \/ \E a \in UserAction : UpdateAction(a)
    \/ SetCurrentActivity("vocabulary_builder")
    \/ CompleteActivity("vocabulary_builder", [new_words |-> <<"w">>])
    \/ CallShouldSkipCurrentActivity
    \/ CallIsActive
    \/ \E a \in ActivityTypes, config \in EngineConfigs,
          prompt_raises \in BOOLEAN : StartActivity(a, config, prompt_raises)
    \/ EngineCompleteActivity
    \/ \E a \in UserAction : CallEngineHandleUserAction(a)
    \/ CallEngineCleanup

SpecEngine == Init /\ [][NextEngine]_vars

\* C26: update_action(SKIP_ACTIVITY) sets the skip flag; the flag stays set
\* through every call but set_current_activity, which clears it;
\* should_skip_current_activity() returns the flag and changes nothing.
C26_SkipFlagSticky ==
    [][/\ (/\ call'.op \in {"update_action", "engine.handle_user_action"}
           /\ call'.action = "SKIP_ACTIVITY") =>
             ctx'.skip_current_activity
       /\ call'.op = "set_current_activity" => ~ctx'.skip_current_activity
       /\ (ctx.skip_current_activity /\ call'.op # "set_current_activity") =>
             ctx'.skip_current_activity
       /\ call'.op = "should_skip_current_activity" =>
             /\ call'.result = ctx.skip_current_activity
             /\ ctx' = ctx]_vars

\* should_skip_current_activity() returned true after a skip that was followed
\* by a completed activity and a CANCEL, and the flag is still set
C26_Witness ==
    /\ call.op = "should_skip_current_activity"
    /\ call.result
    /\ ctx.skip_current_activity
    /\ ctx.last_user_action = "CANCEL"
    /\ ctx.activities_completed # <<>>

\* C29: start_activity on a paused, stopped or cancelled session raises and
\* leaves the engine's current_activity and activity_results and the
\* context as they were; in a stopped or cancelled session the engine's
\* current_activity changes only by being cleared.
C29_StartRejectedWhenInactive ==
    [][/\ (/\ call'.op = "start_activity"
           /\ (ctx.is_paused \/ ctx.is_cancelled \/ ctx.end_time # NoTime)) =>
             /\ call'.exc = "Exception"
             /\ UNCHANGED <<engine, ctx>>
       /\ (/\ ctx.is_cancelled \/ ctx.end_time # NoTime
           /\ engine'.current_activity # engine.current_activity) =>
             engine'.current_activity = NoneStr]_vars

\* start_activity of another activity type was rejected in a session that was
\* cancelled while an activity was running
C29_Witness ==
    /\ call.op = "start_activity"
    /\ call.rejected
    /\ call.exc = "Exception"
    /\ ctx.is_cancelled
    /\ engine.current_activity # NoneStr
    /\ engine.current_activity # call.activity_type

\* C30: STOP and CANCEL set end_time, nothing clears it, and is_active()
\* returns false whenever end_time is set; is_active() returns false on a
\* paused context, and only RESUME ends a pause.
C30_EndedNeverActive ==
    [][/\ (/\ call'.op \in {"update_action", "engine.handle_user_action"}
           /\ call'.action \in {"STOP", "CANCEL"}) =>
             ctx'.end_time # NoTime
       /\ ctx.end_time # NoTime => ctx'.end_time # NoTime
       /\ (call'.op = "is_active" /\ ctx.end_time # NoTime) => ~call'.result
       /\ (call'.op = "is_active" /\ ctx.is_paused) => ~call'.result
       /\ (ctx.is_paused /\ ~ctx'.is_paused) =>
             /\ call'.op \in {"update_action", "engine.handle_user_action"}
             /\ call'.action = "RESUME"]_vars

\* is_active() returned false on a stopped context after a later RESUME
C30_Witness ==
    /\ call.op = "is_active"
    /\ ~call.result
    /\ ctx.end_time # NoTime
    /\ ctx.last_user_action = "RESUME"
    /\ ~ctx.is_paused
    /\ ~ctx.is_cancelled

(***************************************************************************)
(* SessionConfig, LearningSession and SessionManager                       *)
(*                                                                         *)
(* session_manager.py and learning_session.py import the name SessionState *)
(* from session_context, which defines SessionContext only: the import     *)
(* raises ImportError, so no LearningSession is ever made.  The methods of *)
(* a session are modelled on the object LearningSession.__init__ would     *)
(* assign, were SessionState the SessionContext whose fields it passes.    *)
(* A session id is str(time.time()): the model uses the clock value.       *)
(***************************************************************************)
\* sessions the manager holds at once in the explored runs
MaxSessions == 2

\* the args dictionaries SessionConfig is constructed with
ConfigArgs == {"none", "duration_minutes=0", "learning_activities=[]",
               "learning_activities=[vocabulary_builder]"}

\* the callbacks argument of LearningSession: None or {} (falsy), a dictionary
\* without 'error_occurred', a dictionary with it
Callbacks == {"none", "without_error_occurred", "with_error_occurred"}

\* SessionConfig(args): __init__ assigns only the keys present in args;
\* duration_minutes has a class-level default, learning_activities
\* (a default_factory field whose generated __init__ is replaced) has none
SessionConfig(args) ==
    [duration_minutes |-> IF args = "duration_minutes=0" THEN 0 ELSE 30,
     has_learning_activities |->
         args \in {"learning_activities=[]",
                   "learning_activities=[vocabulary_builder]"},
     learning_activities |->
         IF args = "learning_activities=[vocabulary_builder]"
         THEN <<"vocabulary_builder">> ELSE <<>>]

\* SessionConfig.validate()
Validate(config) ==
    IF config.duration_minutes <= 0 THEN [val |-> FALSE, exc |-> "none"]
    ELSE IF ~config.has_learning_activities
    THEN [val |-> FALSE, exc |-> "AttributeError"]
    ELSE IF config.learning_activities = <<>>
    THEN [val |-> FALSE, exc |-> "none"]
    ELSE [val |-> TRUE, exc |-> "none"]

\* `from .session_context import SessionState, UserAction`: session_context
\* defines no SessionState
SessionStateImport == "ImportError"

\* the attributes LearningSession.__init__ assigns at time t;
\* self.callbacks is assigned only for truthy callbacks
SessionFields(config, callbacks, t) ==
    [config |-> config, callbacks |-> callbacks, learning_engine |-> None,
     state |-> NewSessionContext(t)]

\* LearningSession(session_config, callbacks) at time t: the session made and
\* the exception raised
LearningSession(config, callbacks, t) ==
    IF SessionStateImport # "none"
    THEN [session |-> None, exc |-> SessionStateImport]
    ELSE [session |-> SessionFields(config, callbacks, t), exc |-> "none"]

\* LearningEngine(config, state): _setup_voice calls Voice.set_language,
\* which class Voice does not define
LearningEngineInit == "AttributeError"

\* the exception that leaves the except block of a LearningSession method
\* that caught exc: reading self.callbacks fails when it was never assigned,
\* self.callbacks['error_occurred'] is None when the caller gave none
ErrorOccurred(session, exc) ==
    IF session.callbacks = "none" THEN "AttributeError"
    ELSE IF session.callbacks = "without_error_occurred" THEN "TypeError"
    ELSE exc

\* LearningSession.start()
LearningSessionStart(session) ==
    LET v == Validate(session.config)
        raised == IF v.exc # "none" THEN v.exc
                  ELSE IF ~v.val THEN "Exception"
                  ELSE LearningEngineInit
    IN  IF raised = "none"
        THEN [session |-> [session EXCEPT !.learning_engine = NewLearningEngine],
              exc |-> "none"]
        ELSE [session |-> session, exc |-> ErrorOccurred(session, raised)]

\* LearningSession.handle_user_action(action) at time t
HandleUserAction(session, action, t) ==
    IF session.learning_engine = None
    THEN [session |-> session, exc |-> ErrorOccurred(session, "Exception")]
    ELSE LET e == EngineHandleUserAction(session.state, session.learning_engine,
                                         action, t)
             handled == [session EXCEPT !.state = e.state,
                                        !.learning_engine = e.engine]
         IN  IF e.exc # "none"
             THEN [session |-> handled, exc |-> ErrorOccurred(session, e.exc)]
             ELSE [session |-> [handled EXCEPT
                                   !.state = UpdateActionResult(@, action, t)],
                   exc |-> "none"]

\* LearningSession.cleanup(): the engine, when there is one, is cleaned up
\* and then dropped
LearningSessionCleanup(session) ==
    IF session.learning_engine = None
    THEN [session |-> session, exc |-> "none"]
    ELSE LET e == EngineCleanupResult(session.learning_engine)
         IN  IF e.exc # "none"
             THEN [session |-> [session EXCEPT !.learning_engine = e.engine],
                   exc |-> e.exc]
             ELSE [session |-> [session EXCEPT !.learning_engine = None],
                   exc |-> "none"]

\* `if self.active_session_id` / get_active_session() finds a session
Active == active_session_id # NoTime /\ active_session_id \in DOMAIN sessions

\* manager.create_session(SessionConfig(args), callbacks)
CreateSession(args, callbacks) ==
    /\ now \in DOMAIN sessions \/ Cardinality(DOMAIN sessions) < MaxSessions
    /\ LET r == LearningSession(SessionConfig(args), callbacks, now)
       IN  /\ sessions' = IF r.exc # "none" THEN sessions
                          ELSE [id \in (DOMAIN sessions) \cup {now} |->
                                   IF id = now THEN r.session ELSE sessions[id]]
           /\ call' = [op |-> "create_session", exc |-> r.exc,
                       session_id |-> now, args |-> args,
                       callbacks |-> callbacks]
    /\ UNCHANGED <<now, memVars, profVars, progVars, ctx, engine, active_session_id>>

\* manager.start_session(session_id)
StartSession(session_id) ==
    /\ IF session_id \notin DOMAIN sessions
       THEN /\ call' = [op |-> "start_session", exc |-> "Exception",
                        session_id |-> session_id, found |-> FALSE,
                        was_active |-> active_session_id # NoTime]
            /\ UNCHANGED <<sessions, active_session_id>>
       ELSE IF active_session_id # NoTime
       THEN /\ call' = [op |-> "start_session", exc |-> "Exception",
                        session_id |-> session_id, found |-> TRUE,
                        was_active |-> TRUE]
            /\ UNCHANGED <<sessions, active_session_id>>
       ELSE LET r == LearningSessionStart(sessions[session_id])
            IN  /\ sessions' = [sessions EXCEPT ![session_id] = r.session]
                /\ active_session_id' = IF r.exc = "none" THEN session_id
                                        ELSE active_session_id
                /\ call' = [op |-> "start_session", exc |-> r.exc,
                            session_id |-> session_id, found |-> TRUE,
                            was_active |-> FALSE]
    /\ UNCHANGED <<now, memVars, profVars, progVars, ctx, engine>>

\* pause_session, resume_session and skip_current_activity: the action goes
\* to the active session
ForwardToActive(op, action) ==
    /\ IF ~Active
       THEN /\ call' = [op |-> op, exc |-> "Exception"]
            /\ UNCHANGED sessions
       ELSE LET r == HandleUserAction(sessions[active_session_id], action, now)
            IN  /\ sessions' = [sessions EXCEPT ![active_session_id] = r.session]
                /\ call' = [op |-> op, exc |-> r.exc]
    /\ UNCHANGED <<now, memVars, profVars, progVars, ctx, engine, active_session_id>>

PauseSession == ForwardToActive("pause_session", "PAUSE")
ResumeSession == ForwardToActive("resume_session", "RESUME")
SkipCurrentActivity == ForwardToActive("skip_current_activity", "SKIP_ACTIVITY")

\* end_session and cancel_session: the action goes to the active session and,
\* when that raised nothing, active_session_id is cleared
CloseActive(op, action) ==
    /\ IF ~Active
       THEN /\ call' = [op |-> op, exc |-> "Exception"]
            /\ UNCHANGED <<sessions, active_session_id>>
       ELSE LET r == HandleUserAction(sessions[active_session_id], action, now)
            IN  /\ sessions' = [sessions EXCEPT ![active_session_id] = r.session]
                /\ active_session_id' = IF r.exc = "none" THEN NoTime
                                        ELSE active_session_id
                /\ call' = [op |-> op, exc |-> r.exc]
    /\ UNCHANGED <<now, memVars, profVars, progVars, ctx, engine>>

\* manager.cleanup(): the sessions are cleaned up in the order they were
\* created (the order of their ids); the first cleanup that raises ends the
\* call, otherwise sessions is emptied and active_session_id reset
Cleanup ==
    /\ LET raising == {id \in DOMAIN sessions :
                          LearningSessionCleanup(sessions[id]).exc # "none"}
       IN  IF raising = {}
           THEN /\ sessions' = <<>>
                /\ active_session_id' = NoTime
                /\ call' = [op |-> "cleanup", exc |-> "none"]
           ELSE LET first == CHOOSE id \in raising :
                                 \A other \in raising : id <= other
                IN  /\ sessions' = [id \in DOMAIN sessions |->
                                       IF id <= first
                                       THEN LearningSessionCleanup(sessions[id]).session
                                       ELSE sessions[id]]
                    /\ active_session_id' = active_session_id
                    /\ call' = [op |-> "cleanup",
                                exc |-> LearningSessionCleanup(sessions[first]).exc]
    /\ UNCHANGED <<now, memVars, profVars, progVars, ctx, engine>>

EndSession == CloseActive("end_session", "STOP")
CancelSession == CloseActive("cancel_session", "CANCEL")

NextManager ==
    \/ \E a \in ConfigArgs, cb \in Callbacks : CreateSession(a, cb)
    \/ \E id \in 0..MaxNow : StartSession(id)
    \/ PauseSession
    \/ ResumeSession
    \/ SkipCurrentActivity
    \/ EndSession
    \/ CancelSession
    \/ Cleanup
    \/ Tick

SpecManager == Init /\ [][NextManager]_vars

\* C10: the manager enforces a single active session: start_session while a
\* session is active raises and changes nothing, and start_session of a
\* created session with a valid configuration while no session is active
\* (at first, or after end_session or cancel_session) starts it and makes it
\* the active session.
C10_SingleActiveSession ==
    /\ call.op = "create_session" =>
          /\ call.exc = "none"
          /\ call.session_id \in DOMAIN sessions
    /\ (call.op = "start_session" /\ call.found) =>
          /\ call.was_active => call.exc = "Exception"
          /\ (/\ ~call.was_active
              /\ Validate(sessions[call.session_id].config).val)
                => /\ call.exc = "none"
                   /\ active_session_id = call.session_id
                   /\ sessions[call.session_id].learning_engine # None

=============================================================================
